---------------------------- MODULE Spec2Model ----------------------------
(***************************************************************************)
(* A model of the apscheduler data store contract (SQLAlchemy and MongoDB  *)
(* back ends) and of the scheduler loop (sync and async) that drives it.   *)
(*                                                                         *)
(* Rows are records, tables are functions from primary key to row.  Time   *)
(* is a natural number advanced by the Tick action; a lease is the pair    *)
(* (acquired_by, acquired_until).  Every store operation records what it   *)
(* returned, raised and published in the variable "last".                  *)
(***************************************************************************)
EXTENDS Integers, Sequences, FiniteSets, TLC

(***************************************************************************)
(* Bounds of the model.                                                    *)
(***************************************************************************)
MaxTime == 3
MaxJobs == 2
MaxLimit == 2
MaxRunningJobs == 2
LockExpirationDelay == 1

(***************************************************************************)
(* NULL / None: NullStr for text columns, NullInt for integer and          *)
(* timestamp columns (every real value of those is >= 0).                  *)
(***************************************************************************)
NullStr == "null"
NullInt == 0 - 1

TaskIds == {"t1", "t2"}
Workers == {"w1", "w2"}
JobIds == 1..MaxJobs
Times == 0..MaxTime
Outcomes == {"success"}

VARIABLES
    now,          \* datetime.now(timezone.utc)
    tasks,        \* table tasks: id -> row
    jobs,         \* table jobs: id -> row
    job_results,  \* table job_results: job_id -> row
    job_seq,      \* number of jobs created so far (fresh uuid4 / created_at order)
    held,         \* per worker and job: how often it acquired the job and has not released it
    last,         \* the last store call: operation, caller, result, error, events
    hist,         \* history: result rows inserted / results returned per job id, add_schedule calls
    schedules,    \* table schedules: id -> row
    proc,         \* per process inside a store call or a tick: position and locals
    cfg           \* the configuration: store back end and scheduler flavour

vars == <<now, tasks, jobs, job_results, job_seq, held, last, hist, schedules, proc, cfg>>

(***************************************************************************)
(* Helpers.                                                                *)
(***************************************************************************)
Min(a, b) == IF a <= b THEN a ELSE b

Range(s) == {s[i] : i \in 1..Len(s)}

Take(s, n) == IF n = NullInt THEN s ELSE SubSeq(s, 1, Min(n, Len(s)))

\* Function f without the key k (DELETE ... WHERE id = k).
Without(f, k) == [x \in DOMAIN f \ {k} |-> f[x]]

\* The keys S ordered by ascending key(x), ties by the key itself (ORDER BY).
RECURSIVE OrderBy(_, _)
OrderBy(S, key) ==
    IF S = {} THEN <<>>
    ELSE CHOOSE r \in {<<m>> \o OrderBy(S \ {m}, key) :
                           m \in {CHOOSE x \in S : \A y \in S : key[x] <= key[y]}} : TRUE

Call(op, who, arg, ret, err, events) ==
    [op |-> op, who |-> who, arg |-> arg, ret |-> ret, err |-> err, events |-> events]

Event(type, id) == [type |-> type, id |-> id]

(***************************************************************************)
(* Structures handed to the store.                                         *)
(***************************************************************************)
Task(id, max_running_jobs, misfire_grace_time) ==
    [id |-> id, max_running_jobs |-> max_running_jobs,
     misfire_grace_time |-> misfire_grace_time]

\* A new Job: a fresh id, created_at in creation order, no lease.
Job(task_id, schedule_id, scheduled_fire_time, start_deadline) ==
    [id |-> job_seq + 1, task_id |-> task_id, schedule_id |-> schedule_id,
     scheduled_fire_time |-> scheduled_fire_time, start_deadline |-> start_deadline,
     created_at |-> job_seq + 1, acquired_by |-> NullStr, acquired_until |-> NullInt]

JobResult(job_id, outcome) == [job_id |-> job_id, outcome |-> outcome]

(***************************************************************************)
(* Store: tasks.                                                           *)
(***************************************************************************)
\* add_task gone wrong: the update of an existing task resets its counter.
TasksAfterAddResetting(task) ==
    tasks @@ (task.id :> [max_running_jobs |-> task.max_running_jobs,
                          misfire_grace_time |-> task.misfire_grace_time,
                          running_jobs |-> 0])

\* INSERT; on IntegrityError UPDATE func, max_running_jobs, misfire_grace_time.
TasksAfterAdd(task) ==
    IF task.id \in DOMAIN tasks
    THEN [tasks EXCEPT ![task.id].max_running_jobs = task.max_running_jobs,
                       ![task.id].misfire_grace_time = task.misfire_grace_time]
    ELSE tasks @@ (task.id :> [max_running_jobs |-> task.max_running_jobs,
                               misfire_grace_time |-> task.misfire_grace_time,
                               running_jobs |-> 0])

add_task(task) ==
    /\ tasks' = TasksAfterAdd(task)
    /\ last' = Call("add_task", NullStr, task.id, <<>>, FALSE,
                    <<Event(IF task.id \in DOMAIN tasks THEN "TaskUpdated"
                            ELSE "TaskAdded", task.id)>>)

(***************************************************************************)
(* Store: jobs.                                                            *)
(***************************************************************************)
add_job(job) ==
    /\ jobs' = jobs @@ (job.id :> job)
    /\ job_seq' = job_seq + 1
    /\ last' = Call("add_job", NullStr, job.id, <<>>, FALSE, <<Event("JobAdded", job.id)>>)

\* acquired_until IS NULL OR acquired_until < now
LeaseFree(row, t) == row.acquired_until = NullInt \/ row.acquired_until < t

\* The first query of acquire_jobs: unleased jobs joined with their tasks,
\* ordered by created_at, at most limit of them.
SelectJobs(jobsTable, tasksTable, t, limit) ==
    LET rows == {j \in DOMAIN jobsTable :
                    /\ jobsTable[j].task_id \in DOMAIN tasksTable
                    /\ LeaseFree(jobsTable[j], t)}
        ids  == Take(OrderBy(rows, [j \in rows |-> jobsTable[j].created_at]), limit)
    IN  [i \in 1..Len(ids) |-> jobsTable[ids[i]]]

\* The second query: max_running_jobs - running_jobs of the limited tasks.
JobSlotsLeft(tasksTable, task_ids) ==
    [t \in {x \in task_ids \cap DOMAIN tasksTable :
               tasksTable[x].max_running_jobs # NullInt}
        |-> tasksTable[t].max_running_jobs - tasksTable[t].running_jobs]

\* The filter gone wrong: it stops at the first job without a free slot.
RECURSIVE FilterJobsUntilFull(_, _)
FilterJobsUntilFull(docs, slots) ==
    IF docs = <<>> THEN <<>>
    ELSE LET job == Head(docs)
             t   == job.task_id
         IN  IF t \in DOMAIN slots /\ slots[t] = 0
             THEN <<>>
             ELSE <<job>> \o FilterJobsUntilFull(Tail(docs),
                                                 IF t \in DOMAIN slots
                                                 THEN [slots EXCEPT ![t] = @ - 1]
                                                 ELSE slots)

\* The loop that filters out the jobs without a free slot.
RECURSIVE FilterJobs(_, _)
FilterJobs(docs, slots) ==
    IF docs = <<>> THEN <<>>
    ELSE LET job == Head(docs)
             t   == job.task_id
         IN  IF t \in DOMAIN slots /\ slots[t] = 0
             THEN FilterJobs(Tail(docs), slots)
             ELSE <<job>> \o FilterJobs(Tail(docs),
                                        IF t \in DOMAIN slots
                                        THEN [slots EXCEPT ![t] = @ - 1]
                                        ELSE slots)

Increments(acquired) ==
    [t \in {acquired[i].task_id : i \in DOMAIN acquired}
        |-> Cardinality({i \in DOMAIN acquired : acquired[i].task_id = t})]

JobIdsOf(docs) == {docs[i].id : i \in DOMAIN docs}

\* The UPDATE gone wrong: it leases every job without a lease, the skipped
\* ones too.
MarkAcquiredAllFree(jobsTable, ids, worker_id, until) ==
    [j \in DOMAIN jobsTable |->
        IF j \in ids \/ LeaseFree(jobsTable[j], now)
        THEN [jobsTable[j] EXCEPT !.acquired_by = worker_id, !.acquired_until = until]
        ELSE jobsTable[j]]

\* UPDATE jobs SET acquired_by, acquired_until WHERE id IN ids
MarkAcquired(jobsTable, ids, worker_id, until) ==
    [j \in DOMAIN jobsTable |->
        IF j \in ids
        THEN [jobsTable[j] EXCEPT !.acquired_by = worker_id, !.acquired_until = until]
        ELSE jobsTable[j]]

\* UPDATE tasks SET running_jobs = running_jobs + increment WHERE id = task_id
AddRunning(tasksTable, inc) ==
    [t \in DOMAIN tasksTable |->
        IF t \in DOMAIN inc
        THEN [tasksTable[t] EXCEPT !.running_jobs = @ + inc[t]]
        ELSE tasksTable[t]]

AcquiredJobs(limit) ==
    CHOOSE r \in {FilterJobs(docs, JobSlotsLeft(tasks, {docs[i].task_id : i \in DOMAIN docs})) :
                     docs \in {SelectJobs(jobs, tasks, now, limit)}} : TRUE

\* acquire_jobs as one transaction.
acquire_jobs(worker_id, limit) ==
    \E acquired \in {AcquiredJobs(limit)} :
        /\ jobs' = MarkAcquired(jobs, JobIdsOf(acquired), worker_id,
                                now + LockExpirationDelay)
        /\ tasks' = AddRunning(tasks, Increments(acquired))
        /\ last' = Call("acquire_jobs", worker_id, limit,
                        [i \in DOMAIN acquired |-> acquired[i].id], FALSE,
                        [i \in DOMAIN acquired |-> Event("JobAcquired", acquired[i].id)])

\* The three statements of release_job.
ResultInsertFails(result) == result.job_id \in DOMAIN job_results

DecrementRunning(tasksTable, task_id) ==
    [t \in DOMAIN tasksTable |->
        IF t = task_id THEN [tasksTable[t] EXCEPT !.running_jobs = @ - 1]
        ELSE tasksTable[t]]

DeleteJob(jobsTable, job_id) == Without(jobsTable, job_id)

Bump(counter, j) == [counter EXCEPT ![j] = @ + 1]

\* release_job as one transaction; a failed INSERT raises and rolls it back.
release_job(worker_id, task_id, result) ==
    IF ResultInsertFails(result)
    THEN /\ UNCHANGED <<tasks, jobs, job_results, hist>>
         /\ last' = Call("release_job", worker_id, result.job_id, <<>>, TRUE, <<>>)
    ELSE /\ job_results' = job_results @@ (result.job_id :> result)
         /\ tasks' = DecrementRunning(tasks, task_id)
         /\ jobs' = DeleteJob(jobs, result.job_id)
         /\ hist' = [hist EXCEPT !.inserted = Bump(@, result.job_id)]
         /\ last' = Call("release_job", worker_id, result.job_id, <<>>, FALSE,
                         <<Event("JobReleased", result.job_id)>>)

\* get_job_result: fetch the row and delete it, in one transaction.
get_job_result(caller, job_id) ==
    LET found == job_id \in DOMAIN job_results
    IN  /\ job_results' = Without(job_results, job_id)
        /\ hist' = IF found THEN [hist EXCEPT !.returned = Bump(@, job_id)] ELSE hist
        /\ last' = Call("get_job_result", caller, job_id,
                        IF found THEN <<job_results[job_id]>> ELSE <<>>, FALSE, <<>>)

(***************************************************************************)
(* The store driven by workers: every call is one transaction.             *)
(***************************************************************************)
StoreTaskIds == {"t1"}
Limits == {NullInt} \cup 1..MaxLimit
MaxRunning == {NullInt} \cup 1..MaxRunningJobs

Init ==
    /\ now = 0
    /\ tasks = <<>>
    /\ jobs = <<>>
    /\ job_results = <<>>
    /\ job_seq = 0
    /\ held = [w \in Workers |-> [j \in JobIds |-> [task_id |-> NullStr, n |-> 0]]]
    /\ last = Call("init", NullStr, NullStr, <<>>, FALSE, <<>>)
    /\ hist = [inserted |-> [j \in JobIds |-> 0], returned |-> [j \in JobIds |-> 0], added |-> 0]
    /\ schedules = <<>>
    /\ proc = <<>>
    /\ cfg = [store |-> "sql", returning |-> TRUE, scheduler |-> "sync"]

Tick ==
    /\ now < MaxTime
    /\ now' = now + 1
    /\ last' = Call("tick", NullStr, NullStr, <<>>, FALSE, <<>>)
    /\ UNCHANGED <<tasks, jobs, job_results, job_seq, held, hist, schedules, proc, cfg>>

AddTask ==
    \E t \in StoreTaskIds, m \in MaxRunning :
        /\ add_task(Task(t, m, NullInt))
        /\ UNCHANGED <<now, jobs, job_results, job_seq, held, hist, schedules, proc, cfg>>

AddJob ==
    \E t \in DOMAIN tasks :
        /\ job_seq < MaxJobs
        /\ add_job(Job(t, NullStr, NullInt, NullInt))
        /\ UNCHANGED <<now, tasks, job_results, held, hist, schedules, proc, cfg>>

\* Worker loop, step 1: acquire and remember the jobs to run.
Hold(h, docs) ==
    [j \in JobIds |->
        IF j \in JobIdsOf(docs)
        THEN [task_id |-> docs[CHOOSE i \in DOMAIN docs : docs[i].id = j].task_id,
              n |-> h[j].n + 1]
        ELSE h[j]]

AcquireJobs(w) ==
    \E limit \in Limits :
        /\ acquire_jobs(w, limit)
        /\ held' = [held EXCEPT ![w] = Hold(@, AcquiredJobs(limit))]
        /\ UNCHANGED <<now, job_results, job_seq, hist, schedules, proc, cfg>>

\* Worker loop, step 4: release a job it ran, with the job's task id.
ReleaseJob(w) ==
    \E j \in JobIds, outcome \in Outcomes :
        /\ held[w][j].n > 0
        /\ release_job(w, held[w][j].task_id, JobResult(j, outcome))
        /\ held' = [held EXCEPT ![w][j].n = @ - 1]
        /\ UNCHANGED <<now, job_seq, schedules, proc, cfg>>

GetJobResult ==
    \E j \in 1..job_seq :
        /\ get_job_result("caller", j)
        /\ UNCHANGED <<now, tasks, jobs, job_seq, held, schedules, proc, cfg>>

Next ==
    \/ Tick
    \/ AddTask
    \/ AddJob
    \/ \E w \in Workers : AcquireJobs(w)
    \/ \E w \in Workers : ReleaseJob(w)
    \/ GetJobResult

Spec == Init /\ [][Next]_vars

(***************************************************************************)
(* Properties of the store driven by workers.                              *)
(***************************************************************************)
\* The jobs of task t that are leased (acquired_by is not null).
AcquiredCount(t) ==
    Cardinality({j \in DOMAIN jobs : jobs[j].task_id = t /\ jobs[j].acquired_by # NullStr})

\* C1: a task with max_running_jobs = M never has more than M jobs with a
\* non-null acquired_by, whatever add_task, add_job, acquire_jobs, release_job
\* and lease expiry did before.
C1_ConcurrencyBound ==
    \A t \in DOMAIN tasks :
        tasks[t].max_running_jobs # NullInt => AcquiredCount(t) <= tasks[t].max_running_jobs

\* C2: after every store operation each task's running_jobs equals the number
\* of its jobs whose acquired_by is not null.
C2_CounterConsistency ==
    \A t \in DOMAIN tasks : tasks[t].running_jobs = AcquiredCount(t)

\* C8: the result of a job is returned by at most one get_job_result call;
\* every other call for that job id returns none.
C8_ResultConsumedOnce ==
    \A j \in JobIds : hist.returned[j] <= 1

\* C9: a result row is inserted at most once per job id over the whole run.
C9_ResultInsertedOnce ==
    \A j \in JobIds : hist.inserted[j] <= 1

\* C10: release_job for a job whose row is no longer in the store raises no
\* error and leaves job_results, jobs and the tasks' running_jobs unchanged.
C10_ReleaseMissingJobNoOp ==
    [][(last'.op = "release_job" /\ last'.arg \notin DOMAIN jobs)
          => (~last'.err /\ job_results' = job_results /\ jobs' = jobs /\ tasks' = tasks)]_vars

(***************************************************************************)
(* Racing acquirers: acquire_jobs of the MongoDB store, statement by       *)
(* statement.  The session it opens starts no transaction, so every        *)
(* statement takes effect, and is visible to the other worker, at once.    *)
(***************************************************************************)
\* jobs.find(): the unleased jobs by created_at, at most limit of them.
FindJobs(jobsTable, t, limit) ==
    LET rows == {j \in DOMAIN jobsTable : LeaseFree(jobsTable[j], t)}
        ids  == Take(OrderBy(rows, [j \in rows |-> jobsTable[j].created_at]), limit)
    IN  [i \in 1..Len(ids) |-> jobsTable[ids[i]]]

\* The task whose counter the loop over increments.items() updates next.
FirstTask(acquired, inc) ==
    acquired[CHOOSE i \in DOMAIN acquired :
                /\ acquired[i].task_id \in DOMAIN inc
                /\ \A k \in 1..(i - 1) : acquired[k].task_id \notin DOMAIN inc].task_id

Idle == [pc |-> "idle", limit |-> NullInt, documents |-> <<>>, acquired |-> <<>>,
         increments |-> <<>>]

AcqFind(w) ==
    \E limit \in Limits :
        /\ proc[w].pc = "idle"
        /\ proc' = [proc EXCEPT ![w] = [Idle EXCEPT !.pc = "found", !.limit = limit,
                                            !.documents = FindJobs(jobs, now, limit)]]
        /\ UNCHANGED <<now, tasks, jobs, job_results, job_seq, held, last, hist,
                       schedules, cfg>>

\* tasks.find() of the limits, then the loop that filters the documents.
AcqLimits(w) ==
    LET docs     == proc[w].documents
        slots    == JobSlotsLeft(tasks, {docs[i].task_id : i \in DOMAIN docs})
        acquired == FilterJobs(docs, slots)
    IN  /\ proc[w].pc = "found"
        /\ proc' = [proc EXCEPT ![w].pc = IF acquired = <<>> THEN "return" ELSE "mark",
                                ![w].acquired = acquired,
                                ![w].increments = Increments(acquired)]
        /\ UNCHANGED <<now, tasks, jobs, job_results, job_seq, held, last, hist,
                       schedules, cfg>>

\* jobs.update_many() of the lease fields.
AcqMark(w) ==
    /\ proc[w].pc = "mark"
    /\ jobs' = MarkAcquired(jobs, JobIdsOf(proc[w].acquired), w, now + LockExpirationDelay)
    /\ proc' = [proc EXCEPT ![w].pc = "count"]
    /\ UNCHANGED <<now, tasks, job_results, job_seq, held, last, hist, schedules, cfg>>

\* tasks.find_one_and_update(): one $inc per task.
AcqCount(w) ==
    LET inc == proc[w].increments
        t   == FirstTask(proc[w].acquired, inc)
    IN  /\ proc[w].pc = "count"
        /\ DOMAIN inc # {}
        /\ tasks' = AddRunning(tasks, [x \in {t} |-> inc[x]])
        /\ proc' = [proc EXCEPT ![w].increments = Without(inc, t),
                                ![w].pc = IF DOMAIN inc = {t} THEN "return" ELSE "count"]
        /\ UNCHANGED <<now, jobs, job_results, job_seq, held, last, hist, schedules, cfg>>

\* The events are published and acquired_jobs is returned.
AcqReturn(w) ==
    LET acquired == proc[w].acquired
    IN  /\ proc[w].pc = "return"
        /\ proc' = [proc EXCEPT ![w].pc = "done"]
        /\ held' = [held EXCEPT ![w] = Hold(@, acquired)]
        /\ last' = Call("acquire_jobs", w, proc[w].limit,
                        [i \in DOMAIN acquired |-> acquired[i].id], FALSE,
                        [i \in DOMAIN acquired |-> Event("JobAcquired", acquired[i].id)])
        /\ UNCHANGED <<now, tasks, jobs, job_results, job_seq, hist, schedules, cfg>>

RaceAddJob ==
    \E t \in DOMAIN tasks :
        /\ job_seq < MaxJobs
        /\ add_job(Job(t, NullStr, NullInt, NullInt))
        /\ UNCHANGED <<now, tasks, job_results, held, hist, schedules, proc, cfg>>

InitRace ==
    /\ now = 0
    /\ tasks \in [TaskIds -> {[max_running_jobs |-> m, misfire_grace_time |-> NullInt,
                               running_jobs |-> 0] : m \in MaxRunning}]
    /\ jobs = <<>>
    /\ job_results = <<>>
    /\ job_seq = 0
    /\ held = [w \in Workers |-> [j \in JobIds |-> [task_id |-> NullStr, n |-> 0]]]
    /\ last = Call("init", NullStr, NullStr, <<>>, FALSE, <<>>)
    /\ hist = [inserted |-> [j \in JobIds |-> 0], returned |-> [j \in JobIds |-> 0], added |-> 0]
    /\ schedules = <<>>
    /\ proc = [w \in Workers |-> Idle]
    /\ cfg = [store |-> "mongo", returning |-> TRUE, scheduler |-> "sync"]

NextRace ==
    \/ RaceAddJob
    \/ \E w \in Workers : AcqFind(w)
    \/ \E w \in Workers : AcqLimits(w)
    \/ \E w \in Workers : AcqMark(w)
    \/ \E w \in Workers : AcqCount(w)
    \/ \E w \in Workers : AcqReturn(w)

SpecRace == InitRace /\ [][NextRace]_vars

\* C3: when the acquire_jobs calls of two workers interleave statement by
\* statement, no job is returned to both and no task ends with more than
\* max_running_jobs acquired jobs.
C3_RacingAcquirers ==
    (\A w \in Workers : proc[w].pc = "done")
    => /\ \A v, w \in Workers :
            v # w => JobIdsOf(proc[v].acquired) \cap JobIdsOf(proc[w].acquired) = {}
       /\ C1_ConcurrencyBound

(***************************************************************************)
(* Store: schedules.                                                       *)
(***************************************************************************)
ScheduleIds == {"s1", "s2"}
Schedulers == {"sch1", "sch2"}
CoalescePolicies == {"earliest", "latest", "all"}
ConflictPolicies == {"do_nothing", "exception", "replace"}

\* A trigger: the fire times it has yet to produce, strictly increasing; whether
\* next() raises, instead of returning none, once they are used up; and the
\* number of fire times left at which its state cannot be serialized (none:
\* it always can).
FlawedTrigger(times, raises, fails_at) ==
    [times |-> times, raises |-> raises, fails_at |-> fails_at]

Trigger(times) == FlawedTrigger(times, FALSE, NullInt)

\* trigger.next() raises an exception.
TriggerRaises(trigger) == trigger.times = <<>> /\ trigger.raises

\* serializer.serialize(trigger) succeeds.
Serializable(trigger) == Len(trigger.times) # trigger.fails_at

\* trigger.next(): the next fire time, none when exhausted ...
TriggerNext(trigger) ==
    IF trigger.times = <<>> THEN NullInt ELSE Head(trigger.times)

\* ... and the trigger's state after the call.
TriggerAdvance(trigger) ==
    IF trigger.times = <<>> THEN trigger ELSE [trigger EXCEPT !.times = Tail(@)]

Schedule(id, task_id, trigger, coalesce, misfire_grace_time) ==
    [id |-> id, task_id |-> task_id, trigger |-> trigger, coalesce |-> coalesce,
     misfire_grace_time |-> misfire_grace_time, next_fire_time |-> NullInt,
     last_fire_time |-> NullInt, acquired_by |-> NullStr, acquired_until |-> NullInt]

\* schedule.next_deadline
next_deadline(schedule) ==
    IF schedule.next_fire_time # NullInt /\ schedule.misfire_grace_time # NullInt
    THEN schedule.next_fire_time + schedule.misfire_grace_time
    ELSE NullInt

\* add_schedule gone wrong: a duplicate id is overwritten under do_nothing too.
add_schedule_overwriting(schedule, conflict_policy) ==
    IF ~Serializable(schedule.trigger)
    THEN /\ UNCHANGED schedules
         /\ last' = Call("add_schedule", NullStr, schedule.id, <<>>, TRUE, <<>>)
    ELSE IF schedule.id \notin DOMAIN schedules
    THEN /\ schedules' = schedules @@ (schedule.id :> schedule)
         /\ last' = Call("add_schedule", NullStr, schedule.id, <<>>, FALSE,
                         <<Event("ScheduleAdded", schedule.id)>>)
    ELSE IF conflict_policy = "exception"
    THEN /\ UNCHANGED schedules
         /\ last' = Call("add_schedule", NullStr, schedule.id, <<>>, TRUE, <<>>)
    ELSE /\ schedules' = [schedules EXCEPT ![schedule.id] = schedule]
         /\ last' = Call("add_schedule", NullStr, schedule.id, <<>>, FALSE,
                         IF conflict_policy = "replace"
                         THEN <<Event("ScheduleUpdated", schedule.id)>> ELSE <<>>)

\* add_schedule gone wrong: a replaced schedule is announced as added.
add_schedule_announcing(schedule, conflict_policy) ==
    IF ~Serializable(schedule.trigger)
    THEN /\ UNCHANGED schedules
         /\ last' = Call("add_schedule", NullStr, schedule.id, <<>>, TRUE, <<>>)
    ELSE IF schedule.id \in DOMAIN schedules /\ conflict_policy = "exception"
    THEN /\ UNCHANGED schedules
         /\ last' = Call("add_schedule", NullStr, schedule.id, <<>>, TRUE, <<>>)
    ELSE IF schedule.id \in DOMAIN schedules /\ conflict_policy = "do_nothing"
    THEN /\ UNCHANGED schedules
         /\ last' = Call("add_schedule", NullStr, schedule.id, <<>>, FALSE, <<>>)
    ELSE /\ schedules' = [x \in DOMAIN schedules \cup {schedule.id} |->
                             IF x = schedule.id THEN schedule ELSE schedules[x]]
         /\ last' = Call("add_schedule", NullStr, schedule.id, <<>>, FALSE,
                         <<Event("ScheduleAdded", schedule.id)>>)

add_schedule(schedule, conflict_policy) ==
    LET arg == schedule.id
    IN  IF ~Serializable(schedule.trigger)
        THEN /\ UNCHANGED schedules
             /\ last' = Call("add_schedule", NullStr, arg, <<>>, TRUE, <<>>)
        ELSE IF schedule.id \notin DOMAIN schedules
        THEN /\ schedules' = schedules @@ (schedule.id :> schedule)
             /\ last' = Call("add_schedule", NullStr, arg, <<>>, FALSE,
                             <<Event("ScheduleAdded", schedule.id)>>)
        ELSE IF conflict_policy = "exception"
        THEN /\ UNCHANGED schedules
             /\ last' = Call("add_schedule", NullStr, arg, <<>>, TRUE, <<>>)
        ELSE IF conflict_policy = "replace"
        THEN /\ schedules' = [schedules EXCEPT ![schedule.id] = schedule]
             /\ last' = Call("add_schedule", NullStr, arg, <<>>, FALSE,
                             <<Event("ScheduleUpdated", schedule.id)>>)
        ELSE /\ UNCHANGED schedules
             /\ last' = Call("add_schedule", NullStr, arg, <<>>, FALSE, <<>>)

\* Every order in which the rows S can come back.
Orderings(S) ==
    {f \in [1..Cardinality(S) -> S] : \A i, k \in 1..Cardinality(S) : f[i] = f[k] => i = k}

\* SQL: the CTE of acquire_schedules (due, lease absent or expired, by
\* next_fire_time, at most limit).
DueSchedules(table, t, limit) ==
    LET rows == {x \in DOMAIN table :
                    /\ table[x].next_fire_time # NullInt
                    /\ table[x].next_fire_time <= t
                    /\ LeaseFree(table[x], t)}
    IN  Range(Take(OrderBy(rows, [x \in rows |-> table[x].next_fire_time]), limit))

\* MongoDB: schedules.find() of acquire_schedules (next_fire_time not null,
\* lease absent or expired, by next_fire_time, at most limit).
FindSchedules(table, t, limit) ==
    LET rows == {x \in DOMAIN table :
                    /\ table[x].next_fire_time # NullInt
                    /\ LeaseFree(table[x], t)}
        ids  == Take(OrderBy(rows, [x \in rows |-> table[x].next_fire_time]), limit)
    IN  [i \in 1..Len(ids) |-> table[ids[i]]]

\* UPDATE schedules SET acquired_by, acquired_until WHERE id IN ids
LeaseSchedules(table, ids, scheduler_id, until) ==
    [x \in DOMAIN table |->
        IF x \in ids
        THEN [table[x] EXCEPT !.acquired_by = scheduler_id, !.acquired_until = until]
        ELSE table[x]]

\* SQL: the rows acquire_schedules hands back: those of UPDATE .. RETURNING,
\* or without RETURNING every row with acquired_by = scheduler_id.
ReturnedSchedules(table, ids, scheduler_id, returning) ==
    IF returning THEN ids
    ELSE {x \in DOMAIN table : table[x].acquired_by = scheduler_id}

ScheduleIdsOf(scheds) == {scheds[i].id : i \in DOMAIN scheds}

\* SQL: release_schedules, the UPDATE guarded by acquired_by = scheduler_id and
\* the DELETE of the finished schedules.
ToUpdate(scheds) ==
    {i \in DOMAIN scheds :
        scheds[i].next_fire_time # NullInt /\ Serializable(scheds[i].trigger)}

Finished(scheds) == {scheds[i].id : i \in DOMAIN scheds \ ToUpdate(scheds)}

\* The release gone wrong: acquired_until is left in place.
ReleasedKeepingUntil(row, schedule) ==
    [row EXCEPT !.trigger = schedule.trigger, !.next_fire_time = schedule.next_fire_time,
                !.acquired_by = NullStr]

Released(row, schedule) ==
    [row EXCEPT !.trigger = schedule.trigger, !.next_fire_time = schedule.next_fire_time,
                !.acquired_by = NullStr, !.acquired_until = NullInt]

UpdatedIds(table, scheduler_id, scheds) ==
    {scheds[i].id : i \in {k \in ToUpdate(scheds) :
                              /\ scheds[k].id \in DOMAIN table
                              /\ table[scheds[k].id].acquired_by = scheduler_id}}

SchedulesAfterUpdate(table, scheduler_id, scheds) ==
    [x \in DOMAIN table |->
        IF x \in UpdatedIds(table, scheduler_id, scheds)
        THEN Released(table[x], scheds[CHOOSE i \in DOMAIN scheds : scheds[i].id = x])
        ELSE table[x]]

ReleaseEvents(updated, finished) ==
    LET u == OrderBy(updated, [x \in updated |-> 0])
        f == OrderBy(finished, [x \in finished |-> 0])
    IN  [i \in 1..Len(u) |-> Event("ScheduleUpdated", u[i])]
        \o [i \in 1..Len(f) |-> Event("ScheduleRemoved", f[i])]

release_schedules_sql(scheduler_id, scheds, returning) ==
    LET updated  == SchedulesAfterUpdate(schedules, scheduler_id, scheds)
        finished == Finished(scheds)
    IN  /\ schedules' = [x \in DOMAIN updated \ finished |-> updated[x]]
        /\ last' = Call("release_schedules", scheduler_id, ScheduleIdsOf(scheds), <<>>, FALSE,
                        ReleaseEvents(IF returning
                                      THEN UpdatedIds(schedules, scheduler_id, scheds)
                                      ELSE {scheds[i].id : i \in ToUpdate(scheds)},
                                      finished))

\* MongoDB: release_schedules, every UpdateOne and DeleteOne filtered by
\* acquired_by = scheduler_id.
release_schedules_mongo(scheduler_id, scheds) ==
    LET updated  == SchedulesAfterUpdate(schedules, scheduler_id, scheds)
        finished == {x \in Finished(scheds) :
                        x \in DOMAIN schedules /\ schedules[x].acquired_by = scheduler_id}
    IN  /\ schedules' = [x \in DOMAIN updated \ finished |-> updated[x]]
        /\ last' = Call("release_schedules", scheduler_id, ScheduleIdsOf(scheds), <<>>, FALSE,
                        ReleaseEvents({scheds[i].id : i \in ToUpdate(scheds)},
                                      Finished(scheds)))

release_schedules(scheduler_id, scheds) ==
    IF cfg.store = "mongo" THEN release_schedules_mongo(scheduler_id, scheds)
    ELSE release_schedules_sql(scheduler_id, scheds, cfg.returning)

\* SQL: acquire_schedules, one UPDATE in one transaction.
acquire_schedules_sql(scheduler_id, limit) ==
    LET ids   == DueSchedules(schedules, now, limit)
        table == LeaseSchedules(schedules, ids, scheduler_id, now + LockExpirationDelay)
        rows  == ReturnedSchedules(table, ids, scheduler_id, cfg.returning)
    IN  \E order \in Orderings(rows) :
            /\ schedules' = table
            /\ last' = Call("acquire_schedules", scheduler_id, limit,
                            [i \in DOMAIN order |-> table[order[i]]], FALSE, <<>>)

\* MongoDB: acquire_schedules when find() yields nothing.
acquire_schedules_none(scheduler_id, limit) ==
    /\ UNCHANGED schedules
    /\ last' = Call("acquire_schedules", scheduler_id, limit, <<>>, FALSE, <<>>)

\* MongoDB: acquire_schedules, the update_many() that follows a non-empty find().
acquire_schedules_update(scheduler_id, limit, found) ==
    /\ schedules' = LeaseSchedules(schedules, ScheduleIdsOf(found), scheduler_id,
                                   now + LockExpirationDelay)
    /\ last' = Call("acquire_schedules", scheduler_id, limit, found, FALSE, <<>>)

(***************************************************************************)
(* Scheduler: add_schedule and the run loop.                               *)
(***************************************************************************)
SchedulerLimit == 100

\* The coalesce policy gone wrong: every past fire time kept, whatever the policy.
CoalescedKeepAll(fire_times, fire_time, coalesce) == Append(fire_times, fire_time)

\* The fire times kept once the trigger has produced another past fire_time.
Coalesced(fire_times, fire_time, coalesce) ==
    IF coalesce = "all" THEN Append(fire_times, fire_time)
    ELSE IF coalesce = "latest" THEN [fire_times EXCEPT ![1] = fire_time]
    ELSE fire_times

\* The loop over trigger.next() of one schedule: the fire times to create jobs
\* for, the trigger afterwards and the schedule's new next_fire_time.
RECURSIVE FireTimesLoop(_, _, _, _)
FireTimesLoop(fire_times, trigger, coalesce, t) ==
    LET fire_time == TriggerNext(trigger)
    IN  IF TriggerRaises(trigger)
        THEN [fire_times |-> fire_times, trigger |-> trigger,
              next_fire_time |-> NullInt, raised |-> TRUE]
        ELSE IF fire_time = NullInt \/ fire_time > t
        THEN [fire_times |-> fire_times, trigger |-> TriggerAdvance(trigger),
              next_fire_time |-> fire_time, raised |-> FALSE]
        ELSE FireTimesLoop(Coalesced(fire_times, fire_time, coalesce),
                           TriggerAdvance(trigger), coalesce, t)

\* A scheduler between two iterations of its loop.
SchedIdle ==
    [pc |-> "acquire", schedules |-> <<>>, acquired |-> <<>>, i |-> 0, now |-> NullInt,
     fire_times |-> <<>>, done |-> 0, released |-> {}, first_job |-> 0]

\* After schedule i: the next schedule, or what follows the for loop.
AfterSchedule(p) ==
    IF p.i < Len(p.schedules) THEN [p EXCEPT !.i = p.i + 1, !.pc = "compute"]
    ELSE [p EXCEPT !.pc = IF cfg.scheduler = "sync" THEN "release" ELSE "sleep"]

\* schedules = self.data_store.acquire_schedules(self.identity, limit)
RunAcquireSqlUpTo(s, limit) ==
    /\ cfg.store = "sql"
    /\ proc[s].pc = "acquire"
    /\ acquire_schedules_sql(s, limit)
    /\ proc' = [proc EXCEPT ![s] = [SchedIdle EXCEPT !.pc = "now", !.schedules = last'.ret,
                                       !.acquired = last'.ret, !.first_job = job_seq]]
    /\ UNCHANGED <<now, tasks, jobs, job_results, job_seq, held, hist, cfg>>

RunAcquireSql(s) == RunAcquireSqlUpTo(s, SchedulerLimit)

RunAcquireFindUpTo(s, limit) ==
    /\ cfg.store = "mongo"
    /\ proc[s].pc = "acquire"
    /\ LET found == FindSchedules(schedules, now, limit)
       IN  IF found = <<>>
           THEN /\ acquire_schedules_none(s, limit)
                /\ proc' = [proc EXCEPT ![s] = [SchedIdle EXCEPT !.pc = "now",
                                                   !.first_job = job_seq]]
           ELSE /\ UNCHANGED <<schedules, last>>
                /\ proc' = [proc EXCEPT ![s] = [SchedIdle EXCEPT !.pc = "update",
                                                   !.schedules = found]]
    /\ UNCHANGED <<now, tasks, jobs, job_results, job_seq, held, hist, cfg>>

RunAcquireFind(s) == RunAcquireFindUpTo(s, SchedulerLimit)

RunAcquireUpdateUpTo(s, limit) ==
    /\ proc[s].pc = "update"
    /\ acquire_schedules_update(s, limit, proc[s].schedules)
    /\ proc' = [proc EXCEPT ![s].pc = "now", ![s].acquired = proc[s].schedules,
                            ![s].first_job = job_seq]
    /\ UNCHANGED <<now, tasks, jobs, job_results, job_seq, held, hist, cfg>>

RunAcquireUpdate(s) == RunAcquireUpdateUpTo(s, SchedulerLimit)

\* now = datetime.now(); enter the for loop.
RunNow(s) ==
    /\ proc[s].pc = "now"
    /\ proc' = [proc EXCEPT ![s] = AfterSchedule([proc[s] EXCEPT !.now = now])]
    /\ UNCHANGED <<now, tasks, jobs, job_results, job_seq, held, last, hist, schedules, cfg>>

\* The fire times of schedule i.
RunCompute(s) ==
    /\ proc[s].pc = "compute"
    /\ LET p        == proc[s]
           schedule == p.schedules[p.i]
           r        == FireTimesLoop(<<schedule.next_fire_time>>, schedule.trigger,
                                     schedule.coalesce, p.now)
       IN  proc' = [proc EXCEPT ![s] =
                       [p EXCEPT !.pc = "add_job", !.fire_times = r.fire_times,
                                 !.schedules[p.i].trigger = r.trigger,
                                 !.schedules[p.i].next_fire_time =
                                     IF r.raised THEN @ ELSE r.next_fire_time]]
    /\ UNCHANGED <<now, tasks, jobs, job_results, job_seq, held, last, hist, schedules, cfg>>

\* One job per fire time of schedule i; after the last one the asynchronous
\* scheduler releases, the synchronous one goes on with the for loop.
RunAddJob(s) ==
    /\ proc[s].pc = "add_job"
    /\ LET p         == proc[s]
           fire_time == Head(p.fire_times)
           schedule  == [p.schedules[p.i] EXCEPT !.last_fire_time = fire_time]
           q         == [p EXCEPT !.schedules[p.i] = schedule, !.fire_times = Tail(@)]
       IN  /\ add_job(Job(schedule.task_id, schedule.id, fire_time, next_deadline(schedule)))
           /\ proc' = [proc EXCEPT ![s] =
                          IF q.fire_times # <<>> THEN q
                          ELSE IF cfg.scheduler = "async"
                          THEN [q EXCEPT !.done = p.i, !.pc = "release"]
                          ELSE AfterSchedule([q EXCEPT !.done = p.i])]
    /\ UNCHANGED <<now, tasks, job_results, held, hist, schedules, cfg>>

\* release_schedules(identity, schedules): after the for loop in the synchronous
\* scheduler, at the end of its body in the asynchronous one.
RunRelease(s) ==
    /\ proc[s].pc = "release"
    /\ release_schedules(s, proc[s].schedules)
    /\ LET p == [proc[s] EXCEPT !.released = @ \cup
                    {x \in ScheduleIdsOf(proc[s].schedules) \cap DOMAIN schedules :
                        schedules[x].acquired_by = s}]
       IN  proc' = [proc EXCEPT ![s] =
                       IF cfg.scheduler = "async" THEN AfterSchedule(p)
                       ELSE [p EXCEPT !.pc = "sleep"]]
    /\ UNCHANGED <<now, tasks, jobs, job_results, job_seq, held, hist, cfg>>

\* The wait for the next iteration ends.
RunSleep(s) ==
    /\ proc[s].pc = "sleep"
    /\ proc' = [proc EXCEPT ![s] = SchedIdle]
    /\ UNCHANGED <<now, tasks, jobs, job_results, job_seq, held, last, hist, schedules, cfg>>

(***************************************************************************)
(* One scheduler running its loop against a store that schedules are added *)
(* to.                                                                     *)
(***************************************************************************)
MaxAddSchedule == 2

\* The fire times a trigger can be built to produce: every unit of time from
\* a start time on, up to the horizon.
TriggerTimes == {[i \in 1..(MaxTime + 1 - a) |-> a + i - 1] : a \in 0..(MaxTime + 1)}

GraceTimes == {NullInt}

TickSchedulers == {"sch1"}

\* Scheduler.add_schedule()
Scheduler_add_schedule(id, task_id, trigger, coalesce, misfire_grace_time, conflict_policy) ==
    IF TriggerRaises(trigger)
    THEN /\ UNCHANGED schedules
         /\ last' = Call("add_schedule", NullStr, id, <<>>, TRUE, <<>>)
    ELSE add_schedule([Schedule(id, task_id, TriggerAdvance(trigger), coalesce,
                                misfire_grace_time)
                          EXCEPT !.next_fire_time = TriggerNext(trigger)],
                      conflict_policy)

AddSchedule ==
    \E id \in ScheduleIds, t \in DOMAIN tasks, times \in TriggerTimes,
       coalesce \in CoalescePolicies, grace \in GraceTimes,
       conflict_policy \in ConflictPolicies :
        /\ hist.added < MaxAddSchedule
        /\ Scheduler_add_schedule(id, t, Trigger(times), coalesce, grace, conflict_policy)
        /\ hist' = [hist EXCEPT !.added = @ + 1]
        /\ UNCHANGED <<now, tasks, jobs, job_results, job_seq, held, proc, cfg>>

TickClock ==
    /\ now < MaxTime
    /\ now' = now + 1
    /\ UNCHANGED <<tasks, jobs, job_results, job_seq, held, last, hist, schedules, proc, cfg>>

InitTick ==
    /\ now = 0
    /\ tasks = ("t1" :> Task("t1", NullInt, NullInt))
    /\ jobs = <<>>
    /\ job_results = <<>>
    /\ job_seq = 0
    /\ held = [w \in Workers |-> [j \in JobIds |-> [task_id |-> NullStr, n |-> 0]]]
    /\ last = Call("init", NullStr, NullStr, <<>>, FALSE, <<>>)
    /\ hist = [inserted |-> [j \in JobIds |-> 0], returned |-> [j \in JobIds |-> 0], added |-> 0]
    /\ schedules = <<>>
    /\ proc = [s \in TickSchedulers |-> SchedIdle]
    /\ \E store \in {"sql", "mongo"}, scheduler \in {"sync", "async"} :
           cfg = [store |-> store, returning |-> TRUE, scheduler |-> scheduler]

NextTick ==
    \/ TickClock
    \/ AddSchedule
    \/ \E s \in TickSchedulers : RunAcquireSql(s)
    \/ \E s \in TickSchedulers : RunAcquireFind(s)
    \/ \E s \in TickSchedulers : RunAcquireUpdate(s)
    \/ \E s \in TickSchedulers : RunNow(s)
    \/ \E s \in TickSchedulers : RunCompute(s)
    \/ \E s \in TickSchedulers : RunAddJob(s)
    \/ \E s \in TickSchedulers : RunRelease(s)
    \/ \E s \in TickSchedulers : RunSleep(s)

SpecTick == InitTick /\ [][NextTick]_vars

(***************************************************************************)
(* Two schedulers, each calling acquire_schedules once, at the same time,  *)
(* against the same store.                                                 *)
(***************************************************************************)
\* A schedule as Scheduler.add_schedule() stores it.
Stored(id, times, coalesce) ==
    [Schedule(id, "t1", TriggerAdvance(Trigger(times)), coalesce, NullInt)
        EXCEPT !.next_fire_time = TriggerNext(Trigger(times))]

InitSchedRace ==
    /\ now \in Times
    /\ tasks = ("t1" :> Task("t1", NullInt, NullInt))
    /\ jobs = <<>>
    /\ job_results = <<>>
    /\ job_seq = 0
    /\ held = [w \in Workers |-> [j \in JobIds |-> [task_id |-> NullStr, n |-> 0]]]
    /\ last = Call("init", NullStr, NullStr, <<>>, FALSE, <<>>)
    /\ hist = [inserted |-> [j \in JobIds |-> 0], returned |-> [j \in JobIds |-> 0], added |-> 0]
    /\ \E ids \in SUBSET ScheduleIds : \E times \in [ids -> TriggerTimes] :
           schedules = [x \in ids |-> Stored(x, times[x], "latest")]
    /\ proc = [s \in Schedulers |-> SchedIdle]
    /\ \E store \in {"sql", "mongo"}, returning \in BOOLEAN :
           cfg = [store |-> store, returning |-> returning, scheduler |-> "sync"]

NextSchedRace ==
    \/ \E s \in Schedulers : RunAcquireSql(s)
    \/ \E s \in Schedulers : RunAcquireFind(s)
    \/ \E s \in Schedulers : RunAcquireUpdate(s)

SpecSchedRace == InitSchedRace /\ [][NextSchedRace]_vars

\* The schedules that are due.
Due == {x \in DOMAIN schedules :
           schedules[x].next_fire_time # NullInt /\ schedules[x].next_fire_time <= now}

\* C4: once two schedulers' concurrent acquire_schedules calls have both
\* returned, no schedule is in both results, and when exactly one schedule is
\* due one call has returned just that schedule and the other an empty list.
C4_DisjointAcquisition ==
    (\A s \in Schedulers : proc[s].pc = "now") =>
        /\ \A s, r \in Schedulers :
               s # r => ScheduleIdsOf(proc[s].acquired) \cap ScheduleIdsOf(proc[r].acquired) = {}
        /\ Cardinality(Due) = 1 =>
               \E s \in Schedulers :
                   /\ ScheduleIdsOf(proc[s].acquired) = Due
                   /\ \A r \in Schedulers \ {s} : proc[r].acquired = <<>>

\* C6: in every iteration of the scheduler's loop, no job remains to be added
\* for a schedule whose lease this iteration's release_schedules has already
\* released.
C6_JobsBeforeRelease ==
    \A s \in TickSchedulers :
        proc[s].pc = "add_job" => proc[s].schedules[proc[s].i].id \notin proc[s].released

\* The fire times a schedule's trigger yields that are not after t, those after
\* t, and the jobs one iteration of scheduler s created for a schedule.
PastTimes(schedule, t) == {u \in Range(schedule.trigger.times) : u <= t}

FutureTimes(schedule, t) == {u \in Range(schedule.trigger.times) : u > t}

Earliest(S) == CHOOSE u \in S : \A v \in S : u <= v

Latest(S) == CHOOSE u \in S : \A v \in S : v <= u

CreatedJobs(s, schedule) ==
    {j \in DOMAIN jobs : j > proc[s].first_job /\ jobs[j].schedule_id = schedule.id}

ExpectedFireTimes(schedule, t) ==
    IF schedule.coalesce = "all" THEN {schedule.next_fire_time} \cup PastTimes(schedule, t)
    ELSE IF schedule.coalesce = "latest"
    THEN (IF PastTimes(schedule, t) = {} THEN {schedule.next_fire_time}
          ELSE {Latest(PastTimes(schedule, t))})
    ELSE {schedule.next_fire_time}

\* C7: for a schedule acquired with next_fire_time t1 whose trigger then yields
\* past times followed by a future time tf or none, the iteration creates one
\* job per expected fire time, {t1} under earliest, the last past time under
\* latest, t1 and all past times under all, and sets the schedule's
\* next_fire_time to tf (none when the trigger is exhausted).
C7_CoalesceLaws ==
    \A s \in TickSchedulers : \A k \in 1..proc[s].done :
        LET acquired == proc[s].acquired[k]
            created  == CreatedJobs(s, acquired)
            future   == FutureTimes(acquired, proc[s].now)
        IN  /\ {jobs[j].scheduled_fire_time : j \in created}
                   = ExpectedFireTimes(acquired, proc[s].now)
            /\ Cardinality(created) = Cardinality(ExpectedFireTimes(acquired, proc[s].now))
            /\ proc[s].schedules[k].next_fire_time
                   = IF future = {} THEN NullInt ELSE Earliest(future)

\* A schedule with stored t1, two past times t2 < t3 and a future tf has been
\* processed under each policy's distinguishing case: three jobs under all.
C7_Witness ==
    \E s \in TickSchedulers : \E k \in 1..proc[s].done :
        LET acquired == proc[s].acquired[k]
        IN  /\ acquired.coalesce = "all"
            /\ Cardinality(PastTimes(acquired, proc[s].now)) = 2
            /\ FutureTimes(acquired, proc[s].now) # {}
            /\ Cardinality(CreatedJobs(s, acquired)) = 3
            /\ proc[s].schedules[k].next_fire_time = MaxTime

\* C5 (jobs): an acquire_jobs call without a limit returns every job whose
\* lease, held by another worker, has expired, and takes the lease over.
JobLeaseRecovered ==
    \A w \in Workers : \A j \in DOMAIN jobs :
        (/\ last'.op = "acquire_jobs" /\ last'.who = w /\ last'.arg = NullInt
         /\ jobs[j].acquired_by \notin {NullStr, w}
         /\ jobs[j].acquired_until < now)
        => (j \in Range(last'.ret) /\ jobs'[j].acquired_by = w)

\* C5 (schedules): an acquire_schedules call returns every due schedule whose
\* lease, held by another scheduler, has expired, and takes the lease over.
ScheduleLeaseRecovered ==
    \A s \in Schedulers : \A x \in DOMAIN schedules :
        (/\ last'.op = "acquire_schedules" /\ last'.who = s
         /\ proc[s].pc \in {"acquire", "update"} /\ proc'[s].pc = "now"
         /\ schedules[x].acquired_by \notin {NullStr, s}
         /\ schedules[x].acquired_until < now
         /\ schedules[x].next_fire_time # NullInt /\ schedules[x].next_fire_time <= now)
        => (x \in ScheduleIdsOf(last'.ret) /\ schedules'[x].acquired_by = s)

\* C5: a lease that its holder let expire, on a schedule or on a job (also a
\* job of a task with max_running_jobs set), is taken over by the next
\* acquire call of another participant, which returns the schedule or job.
C5_LeaseRecovery == [][JobLeaseRecovered /\ ScheduleLeaseRecovered]_vars

(***************************************************************************)
(* Two schedulers running their loops against a store that holds one       *)
(* schedule.                                                               *)
(***************************************************************************)
\* The triggers schedules are added with: a single fire time or three of them,
\* and some that cannot be serialized once a single fire time is left.
SchedTriggers ==
    {FlawedTrigger(times, FALSE, fails_at) :
        times \in {<<0>>, <<0, 1, 2>>}, fails_at \in {NullInt, 1}}

\* The schedule Scheduler.add_schedule() stores for a trigger.
StoredWith(id, trigger, coalesce, misfire_grace_time) ==
    [Schedule(id, "t1", TriggerAdvance(trigger), coalesce, misfire_grace_time)
        EXCEPT !.next_fire_time = TriggerNext(trigger)]

InitSched ==
    /\ now = 0
    /\ tasks = ("t1" :> Task("t1", NullInt, NullInt))
    /\ jobs = <<>>
    /\ job_results = <<>>
    /\ job_seq = 0
    /\ held = [w \in Workers |-> [j \in JobIds |-> [task_id |-> NullStr, n |-> 0]]]
    /\ last = Call("init", NullStr, NullStr, <<>>, FALSE, <<>>)
    /\ hist = [inserted |-> [j \in JobIds |-> 0], returned |-> [j \in JobIds |-> 0], added |-> 0]
    /\ \E trigger \in SchedTriggers :
           schedules = ("s1" :> StoredWith("s1", trigger, "latest", NullInt))
    /\ proc = [s \in Schedulers |-> SchedIdle]
    /\ \E store \in {"sql", "mongo"}, returning \in BOOLEAN :
           cfg = [store |-> store, returning |-> returning, scheduler |-> "sync"]

\* No iteration is begun once this many jobs have been created.
MaxSchedJobs == 3

BoundedAcquireSql(s) == job_seq < MaxSchedJobs /\ RunAcquireSql(s)

BoundedAcquireFind(s) == job_seq < MaxSchedJobs /\ RunAcquireFind(s)

NextSched ==
    \/ TickClock
    \/ \E s \in Schedulers : BoundedAcquireSql(s)
    \/ \E s \in Schedulers : BoundedAcquireFind(s)
    \/ \E s \in Schedulers : RunAcquireUpdate(s)
    \/ \E s \in Schedulers : RunNow(s)
    \/ \E s \in Schedulers : RunCompute(s)
    \/ \E s \in Schedulers : RunAddJob(s)
    \/ \E s \in Schedulers : RunRelease(s)
    \/ \E s \in Schedulers : RunSleep(s)

SpecSched == InitSched /\ [][NextSched]_vars

\* C11: a release_schedules call by scheduler s leaves every schedule whose
\* acquired_by is not s in the store and unchanged, whether the schedule
\* released has a next_fire_time, is exhausted or fails to serialize.
C11_ReleaseGuarded ==
    [][\A s \in Schedulers :
          (proc[s].pc = "release" /\ proc'[s].pc # "release")
          => \A x \in DOMAIN schedules :
                 schedules[x].acquired_by # s
                 => (x \in DOMAIN schedules' /\ schedules'[x] = schedules[x])]_vars

(***************************************************************************)
(* One scheduler running its loop, and a client that adds schedules under  *)
(* one id with every conflict policy.                                      *)
(***************************************************************************)
ClientScheduleIds == {"s1"}

\* Scheduler.add_schedule() called by the client, which keeps its arguments.
ClientAddSchedule ==
    \E id \in ClientScheduleIds, t \in DOMAIN tasks, trigger \in SchedTriggers,
       conflict_policy \in ConflictPolicies :
        /\ hist.added < MaxAddSchedule
        /\ Scheduler_add_schedule(id, t, trigger, "latest", NullInt, conflict_policy)
        /\ hist' = [hist EXCEPT !.added = @ + 1]
        /\ proc' = [proc EXCEPT !["client"] =
                       [pc |-> "added", id |-> id, task_id |-> t, trigger |-> trigger,
                        conflict_policy |-> conflict_policy]]
        /\ UNCHANGED <<now, tasks, jobs, job_results, job_seq, held, cfg>>

InitAdd ==
    /\ now = 0
    /\ tasks = ("t1" :> Task("t1", NullInt, NullInt))
    /\ jobs = <<>>
    /\ job_results = <<>>
    /\ job_seq = 0
    /\ held = [w \in Workers |-> [j \in JobIds |-> [task_id |-> NullStr, n |-> 0]]]
    /\ last = Call("init", NullStr, NullStr, <<>>, FALSE, <<>>)
    /\ hist = [inserted |-> [j \in JobIds |-> 0], returned |-> [j \in JobIds |-> 0], added |-> 0]
    /\ schedules = <<>>
    /\ proc = [s \in TickSchedulers |-> SchedIdle] @@ ("client" :> [pc |-> "idle"])
    /\ \E store \in {"sql", "mongo"} :
           cfg = [store |-> store, returning |-> TRUE, scheduler |-> "sync"]

NextAdd ==
    \/ TickClock
    \/ ClientAddSchedule
    \/ \E s \in TickSchedulers : RunAcquireSql(s)
    \/ \E s \in TickSchedulers : RunAcquireFind(s)
    \/ \E s \in TickSchedulers : RunAcquireUpdate(s)
    \/ \E s \in TickSchedulers : RunNow(s)
    \/ \E s \in TickSchedulers : RunCompute(s)
    \/ \E s \in TickSchedulers : RunAddJob(s)
    \/ \E s \in TickSchedulers : RunRelease(s)
    \/ \E s \in TickSchedulers : RunSleep(s)

SpecAdd == InitAdd /\ [][NextAdd]_vars

\* The step is an add_schedule call of the client with a trigger that works.
ClientAdds ==
    /\ hist'.added # hist.added
    /\ ~TriggerRaises(proc'["client"].trigger)
    /\ Serializable(TriggerAdvance(proc'["client"].trigger))

\* C12: add_schedule on an id that exists fails under conflict_policy exception
\* and returns silently under do_nothing; either way the stored schedules, lease
\* fields included, stay as they are and no event is published.
C12_ConflictLeavesRow ==
    [][(/\ ClientAdds
        /\ proc'["client"].id \in DOMAIN schedules
        /\ proc'["client"].conflict_policy \in {"exception", "do_nothing"})
       => /\ schedules' = schedules
          /\ last'.events = <<>>
          /\ last'.err = (proc'["client"].conflict_policy = "exception")]_vars

\* An add_schedule under exception has just failed on a schedule that a
\* scheduler holds the lease of.
C12_Witness ==
    /\ last.op = "add_schedule" /\ last.err
    /\ proc["client"].pc = "added" /\ proc["client"].conflict_policy = "exception"
    /\ last.arg \in DOMAIN schedules
    /\ schedules[last.arg].acquired_by # NullStr

\* C13: add_schedule publishes exactly one event when it changes the store:
\* ScheduleAdded when the id is new and the schedule is inserted,
\* ScheduleUpdated when the id exists and conflict_policy replace puts the new
\* schedule in place of the row.
C13_AddScheduleEvents ==
    [][ClientAdds
       => LET c   == proc'["client"]
              new == StoredWith(c.id, c.trigger, "latest", NullInt)
          IN  /\ c.id \notin DOMAIN schedules
                 => /\ schedules' = schedules @@ (c.id :> new)
                    /\ last'.events = <<Event("ScheduleAdded", c.id)>>
              /\ (c.id \in DOMAIN schedules /\ c.conflict_policy = "replace")
                 => /\ schedules' = [schedules EXCEPT ![c.id] = new]
                    /\ last'.events = <<Event("ScheduleUpdated", c.id)>>
              /\ schedules' # schedules => Len(last'.events) = 1]_vars

\* A schedule that a scheduler holds has just been replaced by a different one.
C13_Witness ==
    /\ last.op = "add_schedule"
    /\ last.events = <<Event("ScheduleUpdated", last.arg)>>
    /\ proc["client"].pc = "added" /\ proc["client"].conflict_policy = "replace"
    /\ schedules[last.arg] = StoredWith(last.arg, proc["client"].trigger, "latest", NullInt)
    /\ \E s \in TickSchedulers : \E i \in DOMAIN proc[s].acquired :
           /\ proc[s].acquired[i].id = last.arg
           /\ proc[s].acquired[i].trigger # schedules[last.arg].trigger

(***************************************************************************)
(* Scheduler.get_job_result, statement by statement, next to workers that  *)
(* release jobs.  release_job commits its transaction and publishes        *)
(* JobReleased afterwards; the broker calls the subscribed listeners in    *)
(* the publisher's thread.  proc.caller is the one call in flight,         *)
(* proc[w].pending the JobReleased events worker w has yet to publish.     *)
(***************************************************************************)
CallIdle ==
    [pc |-> "idle", job_id |-> NullInt, wait |-> FALSE, subscribed |-> FALSE,
     wait_event |-> FALSE, waited |-> FALSE, result |-> <<>>]

\* def listener(event): if event.job_id == job_id: wait_event.set()
listener_deaf(call, event) == call

listener(call, event) ==
    IF call.subscribed /\ event.type = "JobReleased" /\ event.id = call.job_id
    THEN [call EXCEPT !.wait_event = TRUE]
    ELSE call

\* The statements after the first store call: return the result, raise
\* JobLookupError when not told to wait, or go on to wait_event.wait().
AfterFirstGetWaiting(call, result) ==
    IF result # <<>>
    THEN [call EXCEPT !.pc = "returned", !.result = result, !.subscribed = FALSE]
    ELSE [call EXCEPT !.pc = "wait"]

AfterFirstGet(call, result) ==
    IF result # <<>>
    THEN [call EXCEPT !.pc = "returned", !.result = result, !.subscribed = FALSE]
    ELSE IF ~call.wait
         THEN [call EXCEPT !.pc = "raised", !.subscribed = FALSE]
         ELSE [call EXCEPT !.pc = "wait"]

\* wait_event = threading.Event(); with events.subscribe(listener, {JobReleased}):
CallSubscribeBy(c, ids, waits) ==
    \E j \in ids, wait \in waits :
        /\ proc[c].pc = "idle"
        /\ proc' = [proc EXCEPT ![c] =
                        [CallIdle EXCEPT !.pc = "get", !.job_id = j, !.wait = wait,
                                         !.subscribed = TRUE]]
        /\ UNCHANGED <<now, tasks, jobs, job_results, job_seq, held, last, hist,
                       schedules, cfg>>

CallSubscribe == CallSubscribeBy("caller", JobIds, BOOLEAN)

\* result = self.data_store.get_job_result(job_id), and the branch on it.
CallFirstGetBy(c) ==
    /\ proc[c].pc = "get"
    /\ get_job_result(c, proc[c].job_id)
    /\ proc' = [proc EXCEPT ![c] = AfterFirstGet(@, last'.ret)]
    /\ UNCHANGED <<now, tasks, jobs, job_seq, held, schedules, cfg>>

CallFirstGet == CallFirstGetBy("caller")

\* wait_event.wait() returns once the event is set; leaving the with block
\* removes the subscription.
CallWaitBy(c) ==
    /\ proc[c].pc = "wait"
    /\ proc[c].wait_event
    /\ proc' = [proc EXCEPT ![c].pc = "get_again",
                            ![c].subscribed = FALSE,
                            ![c].waited = TRUE]
    /\ UNCHANGED <<now, tasks, jobs, job_results, job_seq, held, last, hist,
                   schedules, cfg>>

CallWait == CallWaitBy("caller")

\* result = self.data_store.get_job_result(job_id); assert isinstance(result, JobResult)
CallSecondGetBy(c) ==
    /\ proc[c].pc = "get_again"
    /\ get_job_result(c, proc[c].job_id)
    /\ proc' = [proc EXCEPT ![c].pc =
                                IF last'.ret # <<>> THEN "returned" ELSE "assertion_failed",
                            ![c].result = last'.ret]
    /\ UNCHANGED <<now, tasks, jobs, job_seq, held, schedules, cfg>>

CallSecondGet == CallSecondGetBy("caller")

\* release_job up to the end of its transaction.
WorkerRelease(w) ==
    \E j \in JobIds, outcome \in Outcomes :
        /\ held[w][j].n > 0
        /\ proc[w].pending = <<>>
        /\ release_job(w, held[w][j].task_id, JobResult(j, outcome))
        /\ held' = [held EXCEPT ![w][j].n = @ - 1]
        /\ proc' = [proc EXCEPT ![w].pending = last'.events]
        /\ UNCHANGED <<now, job_seq, schedules, cfg>>

\* self._events.publish(JobReleased(...)) after the transaction: the event
\* is delivered to the listener of every call in progress.
WorkerPublishTo(w, callers) ==
    /\ proc[w].pending # <<>>
    /\ proc' = [x \in DOMAIN proc |->
                   IF x = w THEN [proc[x] EXCEPT !.pending = Tail(@)]
                   ELSE IF x \in callers THEN listener(proc[x], Head(proc[w].pending))
                   ELSE proc[x]]
    /\ UNCHANGED <<now, tasks, jobs, job_results, job_seq, held, last, hist,
                   schedules, cfg>>

WorkerPublish(w) == WorkerPublishTo(w, {"caller"})

InitResult ==
    /\ now = 0
    /\ tasks = ("t1" :> Task("t1", NullInt, NullInt))
    /\ jobs = <<>>
    /\ job_results = <<>>
    /\ job_seq = 0
    /\ held = [w \in Workers |-> [j \in JobIds |-> [task_id |-> NullStr, n |-> 0]]]
    /\ last = Call("init", NullStr, NullStr, <<>>, FALSE, <<>>)
    /\ hist = [inserted |-> [j \in JobIds |-> 0], returned |-> [j \in JobIds |-> 0], added |-> 0]
    /\ schedules = <<>>
    /\ proc = [w \in Workers |-> [pending |-> <<>>]] @@ ("caller" :> CallIdle)
    /\ cfg \in {[store |-> st, returning |-> TRUE, scheduler |-> "sync"] :
                    st \in {"sql", "mongo"}}

NextResult ==
    \/ Tick
    \/ AddJob
    \/ \E w \in Workers : AcquireJobs(w)
    \/ \E w \in Workers : WorkerRelease(w)
    \/ \E w \in Workers : WorkerPublish(w)
    \/ CallSubscribe
    \/ CallFirstGet
    \/ CallWait
    \/ CallSecondGet

SpecResult == InitResult /\ [][NextResult]_vars

\* Every thread that can take its next statement eventually takes it: the
\* caller's statements and the publication that follows a committed release.
SpecResultFair ==
    /\ SpecResult
    /\ WF_vars(CallFirstGet)
    /\ WF_vars(CallWait)
    /\ WF_vars(CallSecondGet)
    /\ \A w \in Workers : WF_vars(WorkerPublish(w))

\* C14: a get_job_result(job_id, wait=True) call in flight whose job's result
\* has been inserted by release_job eventually returns that JobResult,
\* wherever the release falls between the call's statements.
C14_NoLostWakeup ==
    \A j \in JobIds :
        (/\ proc["caller"].pc \in {"get", "wait", "get_again"}
         /\ proc["caller"].wait
         /\ proc["caller"].job_id = j
         /\ hist.inserted[j] > 0)
        ~> (/\ proc["caller"].pc = "returned"
            /\ proc["caller"].result = <<JobResult(j, "success")>>)

\* The call found nothing at first, waited, was woken and returned the result.
C14_Witness ==
    /\ proc["caller"].pc = "returned"
    /\ proc["caller"].waited
    /\ proc["caller"].result # <<>>

\* C15: the store call of a get_job_result(job_id, wait=False) ends the call:
\* with JobLookupError and the table untouched when the store holds no result
\* for job_id, with the stored result, removed from the store, when it holds
\* one; the call never goes on to wait.
C15_NoWaitLookup ==
    [][(proc["caller"].pc = "get" /\ ~proc["caller"].wait
            /\ proc'["caller"].pc # "get")
       => LET j == proc["caller"].job_id
          IN  IF j \in DOMAIN job_results
              THEN /\ proc'["caller"].pc = "returned"
                   /\ proc'["caller"].result = <<job_results[j]>>
                   /\ j \notin DOMAIN job_results'
              ELSE /\ proc'["caller"].pc = "raised"
                   /\ proc'["caller"].result = <<>>
                   /\ job_results' = job_results]_vars

\* A wait=False call raised JobLookupError for a job that exists but has not
\* been released yet.
C15_Witness ==
    /\ proc["caller"].pc = "raised"
    /\ ~proc["caller"].wait
    /\ proc["caller"].job_id \in JobIdsOf(jobs)

(***************************************************************************)
(* get_next_schedule_run_time.  SQL selects the id column of the first row *)
(* by next_fire_time and returns result.scalar(); MongoDB looks for the    *)
(* field next_run_time, which no schedule document has (a missing field    *)
(* reads as null).  A returned value carries its type.                     *)
(***************************************************************************)
Field(document, name) ==
    IF name \in DOMAIN document THEN document[name] ELSE NullInt

Scalar(type, value) == [type |-> type, value |-> value]

NextRunTimeSql(table) ==
    LET rows == {x \in DOMAIN table : table[x].next_fire_time # NullInt}
        rs   == Take(OrderBy(rows, [x \in rows |-> table[x].next_fire_time]), 1)
    IN  IF rs = <<>> THEN <<>> ELSE <<Scalar("str", table[rs[1]].id)>>

NextRunTimeMongo(table) ==
    LET rows == {x \in DOMAIN table : Field(table[x], "next_run_time") # NullInt}
        rs   == OrderBy(rows, [x \in rows |-> Field(table[x], "next_run_time")])
    IN  IF rs = <<>> THEN <<>>
        ELSE <<Scalar("datetime", Field(table[rs[1]], "next_run_time"))>>

get_next_schedule_run_time(who) ==
    /\ last' = Call("get_next_schedule_run_time", who, NullStr,
                    IF cfg.store = "sql" THEN NextRunTimeSql(schedules)
                    ELSE NextRunTimeMongo(schedules),
                    FALSE, <<>>)
    /\ UNCHANGED schedules

(***************************************************************************)
(* The scheduler from __enter__ to __exit__: the thread that enters and    *)
(* leaves the with block (proc.life.main) and the thread of run()           *)
(* (proc[s]).  proc.life holds _state and _wakeup_event; the event object  *)
(* the attribute names is unset, set or, after del, gone.                  *)
(***************************************************************************)
LoopSchedulers == {"sch1"}

LifeInit ==
    [state |-> "stopped", wakeup_event |-> "deleted", subscribed |-> FALSE,
     main |-> "init", exc |-> FALSE, loaded |-> "none", started |-> FALSE,
     wait_time |-> NullInt]

LoopDone(s) == proc[s].pc \in {"finished", "crashed"}

\* lambda event: self._wakeup_event.set(), subscribed to ScheduleAdded and
\* ScheduleUpdated of the data store.
WakeupNever(life, events) == life

Wakeup(life, events) ==
    IF /\ life.subscribed
       /\ \E i \in DOMAIN events : events[i].type \in {"ScheduleAdded", "ScheduleUpdated"}
       /\ life.wakeup_event # "deleted"
    THEN [life EXCEPT !.wakeup_event = "set"]
    ELSE life

\* __enter__ up to the wait for the start of run().
EnterStarting ==
    /\ proc["life"].main = "init"
    /\ proc' = [proc EXCEPT !["life"].state = "starting",
                            !["life"].wakeup_event = "unset",
                            !["life"].subscribed = TRUE,
                            !["life"].main = "wait_start"]
    /\ UNCHANGED <<now, tasks, jobs, job_results, job_seq, held, last, hist, schedules, cfg>>

\* run() up to the try block.
RunStart(s) ==
    /\ proc[s].pc = "start"
    /\ proc["life"].main = "wait_start"
    /\ proc' = IF proc["life"].state # "starting"
               THEN [proc EXCEPT ![s].pc = "crashed"]
               ELSE [proc EXCEPT ![s].pc = "check", !["life"].state = "started",
                                 !["life"].started = TRUE]
    /\ UNCHANGED <<now, tasks, jobs, job_results, job_seq, held, last, hist, schedules, cfg>>

\* __enter__ returns once run() has signalled its start; it raises what
\* run() raised when run() is already over.
EnterReturn ==
    /\ proc["life"].main = "wait_start"
    /\ proc["life"].started \/ \E s \in LoopSchedulers : LoopDone(s)
    /\ proc' = [proc EXCEPT !["life"].main =
                   IF \E s \in LoopSchedulers : proc[s].pc = "crashed"
                   THEN "enter_raised" ELSE "entered"]
    /\ UNCHANGED <<now, tasks, jobs, job_results, job_seq, held, last, hist, schedules, cfg>>

\* __exit__: self._state = RunState.stopping.  __aexit__ goes on to set the
\* event without giving up control.
StateKept(state) == state

StateAfterExit(state) == "stopping"

ExitStopping ==
    \E exc \in BOOLEAN :
        /\ proc["life"].main = "entered"
        /\ proc' = IF cfg.scheduler = "sync"
                   THEN [proc EXCEPT !["life"].state = StateAfterExit(@),
                                     !["life"].exc = exc,
                                     !["life"].main = "exit_load"]
                   ELSE [proc EXCEPT !["life"].state = StateAfterExit(@),
                                     !["life"].exc = exc,
                                     !["life"].wakeup_event = "set",
                                     !["life"].main = "exit_shutdown"]
        /\ UNCHANGED <<now, tasks, jobs, job_results, job_seq, held, last, hist,
                       schedules, cfg>>

\* self._wakeup_event.set(): the attribute is read,
ExitLoad ==
    /\ proc["life"].main = "exit_load"
    /\ proc' = [proc EXCEPT !["life"].loaded = "current", !["life"].main = "exit_set"]
    /\ UNCHANGED <<now, tasks, jobs, job_results, job_seq, held, last, hist, schedules, cfg>>

\* then set() is called on the object read.
ExitSet ==
    /\ proc["life"].main = "exit_set"
    /\ proc' = [proc EXCEPT !["life"].wakeup_event =
                                IF proc["life"].loaded = "current" THEN "set" ELSE @,
                            !["life"].main = "exit_shutdown"]
    /\ UNCHANGED <<now, tasks, jobs, job_results, job_seq, held, last, hist, schedules, cfg>>

\* executor.shutdown(wait=exc_type is None) / the task group's exit, which
\* waits for run(); the exit stack removes the subscriptions; del
\* self._wakeup_event.
ExitShutdown ==
    /\ proc["life"].main = "exit_shutdown"
    /\ \/ cfg.scheduler = "sync" /\ proc["life"].exc
       \/ \A s \in LoopSchedulers : LoopDone(s)
    /\ proc' = [proc EXCEPT !["life"].subscribed = FALSE,
                            !["life"].wakeup_event = "deleted",
                            !["life"].main = "exited"]
    /\ UNCHANGED <<now, tasks, jobs, job_results, job_seq, held, last, hist, schedules, cfg>>

\* No iteration is begun once this many jobs have been created.
MaxLoopJobs == 3

\* while self._state is RunState.started:
LoopCheck(s) ==
    /\ proc[s].pc = "check"
    /\ proc["life"].state = "started" => job_seq < MaxLoopJobs
    /\ proc' = [proc EXCEPT ![s] = IF proc["life"].state = "started" THEN SchedIdle
                                   ELSE [@ EXCEPT !.pc = "finish"]]
    /\ UNCHANGED <<now, tasks, jobs, job_results, job_seq, held, last, hist, schedules, cfg>>

\* release_schedules; the data store publishes its events to the
\* scheduler's subscribers before the call returns.
LoopRelease(s) ==
    /\ proc[s].pc = "release"
    /\ release_schedules(s, proc[s].schedules)
    /\ LET p == [proc[s] EXCEPT !.released = @ \cup
                    {x \in ScheduleIdsOf(proc[s].schedules) \cap DOMAIN schedules :
                        schedules[x].acquired_by = s}]
       IN  proc' = [proc EXCEPT ![s] = IF cfg.scheduler = "async" THEN AfterSchedule(p)
                                       ELSE [p EXCEPT !.pc = "sleep"],
                                !["life"] = Wakeup(@, last'.events)]
    /\ UNCHANGED <<now, tasks, jobs, job_results, job_seq, held, hist, cfg>>

\* wait_time: None, or now - next_fire_time, which raises TypeError when
\* the store returned something that is not a datetime.
LoopNextRunTimeUpTo(s, limit) ==
    /\ proc[s].pc = "sleep"
    /\ IF Len(proc[s].schedules) < limit
       THEN /\ get_next_schedule_run_time(s)
            /\ proc' = IF last'.ret = <<>>
                       THEN [proc EXCEPT ![s].pc = "wait", !["life"].wait_time = NullInt]
                       ELSE IF last'.ret[1].type = "datetime"
                       THEN [proc EXCEPT ![s].pc = "wait",
                                         !["life"].wait_time = now - last'.ret[1].value]
                       ELSE [proc EXCEPT ![s].pc = "raise"]
       ELSE /\ UNCHANGED <<last, schedules>>
            /\ proc' = [proc EXCEPT ![s].pc = "wait", !["life"].wait_time = NullInt]
    /\ UNCHANGED <<now, tasks, jobs, job_results, job_seq, held, hist, cfg>>

LoopNextRunTime(s) == LoopNextRunTimeUpTo(s, SchedulerLimit)

\* self._wakeup_event.wait(wait_time): returns True once the event is set,
\* False when wait_time runs out first; AttributeError after del.
LoopWait(s) ==
    /\ proc[s].pc = "wait"
    /\ LET life == proc["life"]
       IN  /\ life.wakeup_event = "unset" => life.wait_time # NullInt
           /\ proc' = [proc EXCEPT ![s].pc =
                          IF life.wakeup_event = "deleted" THEN "raise"
                          ELSE IF life.wakeup_event = "set" \/ cfg.scheduler = "async"
                          THEN "replace" ELSE "check"]
    /\ UNCHANGED <<now, tasks, jobs, job_results, job_seq, held, last, hist, schedules, cfg>>

\* self._wakeup_event = Event()
LoopReplace(s) ==
    /\ proc[s].pc = "replace"
    /\ proc' = [proc EXCEPT ![s].pc = "check",
                            !["life"].wakeup_event = "unset",
                            !["life"].loaded = IF @ = "current" THEN "stale" ELSE @]
    /\ UNCHANGED <<now, tasks, jobs, job_results, job_seq, held, last, hist, schedules, cfg>>

\* The task group cancels run() when the with block is left with an
\* exception: except get_cancelled_exc_class(): pass
LoopCancelled(s) ==
    /\ cfg.scheduler = "async"
    /\ proc["life"].main = "exit_shutdown" /\ proc["life"].exc
    /\ proc[s].pc \notin {"start", "raise", "finish", "finished", "crashed"}
    /\ proc' = [proc EXCEPT ![s].pc = "finish"]
    /\ UNCHANGED <<now, tasks, jobs, job_results, job_seq, held, last, hist, schedules, cfg>>

\* except BaseException: self._state = RunState.stopped; raise
LoopRaise(s) ==
    /\ proc[s].pc = "raise"
    /\ proc' = [proc EXCEPT ![s].pc = "crashed", !["life"].state = "stopped"]
    /\ UNCHANGED <<now, tasks, jobs, job_results, job_seq, held, last, hist, schedules, cfg>>

\* After the loop: self._state = RunState.stopped
LoopFinish(s) ==
    /\ proc[s].pc = "finish"
    /\ proc' = [proc EXCEPT ![s].pc = "finished", !["life"].state = "stopped"]
    /\ UNCHANGED <<now, tasks, jobs, job_results, job_seq, held, last, hist, schedules, cfg>>

LoopTriggers ==
    {FlawedTrigger(times, raises, NullInt) :
        times \in {<<0>>, <<0, 1>>, <<0, 2>>, <<1, 2>>}, raises \in BOOLEAN}

LoopGraceTimes == {NullInt, 1}

InitLoop ==
    /\ now = 0
    /\ tasks = ("t1" :> Task("t1", NullInt, NullInt))
    /\ jobs = <<>>
    /\ job_results = <<>>
    /\ job_seq = 0
    /\ held = [w \in Workers |-> [j \in JobIds |-> [task_id |-> NullStr, n |-> 0]]]
    /\ last = Call("init", NullStr, NullStr, <<>>, FALSE, <<>>)
    /\ hist = [inserted |-> [j \in JobIds |-> 0], returned |-> [j \in JobIds |-> 0], added |-> 0]
    /\ \E trigger \in LoopTriggers, coalesce \in {"latest", "all"}, grace \in LoopGraceTimes :
           schedules = ("s1" :> StoredWith("s1", trigger, coalesce, grace))
    /\ proc = [s \in LoopSchedulers |-> [SchedIdle EXCEPT !.pc = "start"]]
                  @@ ("life" :> LifeInit)
    /\ \E store \in {"sql", "mongo"}, scheduler \in {"sync", "async"} :
           cfg = [store |-> store, returning |-> TRUE, scheduler |-> scheduler]

\* One statement of the thread running run().
LoopStep(s) ==
    \/ RunStart(s)
    \/ LoopCheck(s)
    \/ RunAcquireSql(s)
    \/ RunAcquireFind(s)
    \/ RunAcquireUpdate(s)
    \/ RunNow(s)
    \/ RunCompute(s)
    \/ RunAddJob(s)
    \/ LoopRelease(s)
    \/ LoopNextRunTime(s)
    \/ LoopWait(s)
    \/ LoopReplace(s)
    \/ LoopCancelled(s)
    \/ LoopRaise(s)
    \/ LoopFinish(s)

NextLoop ==
    \/ TickClock
    \/ EnterStarting
    \/ EnterReturn
    \/ ExitStopping
    \/ ExitLoad
    \/ ExitSet
    \/ ExitShutdown
    \/ \E s \in LoopSchedulers : LoopStep(s)

SpecLoop == InitLoop /\ [][NextLoop]_vars

LifecycleChain ==
    {<<"stopped", "starting">>, <<"starting", "started">>, <<"started", "stopping">>,
     <<"stopping", "stopped">>}

\* C16: the run state only changes along stopped -> starting -> started ->
\* stopping -> stopped, and when __exit__ returns the state is stopped, also
\* when run() ended with an exception before __exit__ was called.
C16_Lifecycle ==
    [][/\ proc'["life"].state # proc["life"].state
            => <<proc["life"].state, proc'["life"].state>> \in LifecycleChain
       /\ (proc["life"].main # "exited" /\ proc'["life"].main = "exited")
            => proc'["life"].state = "stopped"]_vars

\* The thread of run() keeps running: whenever it can take its next
\* statement it eventually does.
SpecLoopFair == SpecLoop /\ \A s \in LoopSchedulers : WF_vars(LoopStep(s))

\* C17: once __exit__ has set the state to stopping and set the wakeup event,
\* run() is over after finitely many of its statements, wherever in the loop
\* it was, the replacement of the event object included.
C17_StopTerminates ==
    \A s \in LoopSchedulers :
        (proc["life"].main \in {"exit_shutdown", "exited"}) ~> LoopDone(s)

\* __exit__ read the event object, the loop replaced it before set() was
\* called on it, and run() still left its loop.
C17_Witness ==
    /\ proc["life"].main = "exited"
    /\ proc["life"].loaded = "stale"
    /\ proc["sch1"].pc = "finished"
    /\ job_seq > 0

\* The schedules of this iteration, already processed, whose trigger's next()
\* raised.
RaisedSchedules(s) ==
    {proc[s].schedules[i].id : i \in {k \in 1..proc[s].done :
                                        TriggerRaises(proc[s].schedules[k].trigger)}}

\* C18: a schedule whose trigger's next() raised in an iteration is deleted by
\* that iteration's release_schedules (it is still leased to the scheduler),
\* and no schedule is acquired again at a fire time it already got jobs for.
C18_TriggerErrorRemoves ==
    [][\A s \in LoopSchedulers :
          /\ (proc[s].pc = "release" /\ proc'[s].pc # "release")
                => \A x \in RaisedSchedules(s) :
                       (x \in DOMAIN schedules /\ schedules[x].acquired_by = s)
                       => x \notin DOMAIN schedules'
          /\ (proc[s].pc \in {"acquire", "update"} /\ proc'[s].pc = "now")
                => \A i \in DOMAIN proc'[s].acquired :
                       LET schedule == proc'[s].acquired[i]
                       IN  ~\E j \in DOMAIN jobs :
                               /\ jobs[j].schedule_id = schedule.id
                               /\ jobs[j].scheduled_fire_time >= schedule.next_fire_time]_vars

\* C19: every job added for a schedule carries the fire time it stands for
\* and, as start_deadline, that fire time plus the schedule's
\* misfire_grace_time (null without a grace time).
C19_JobDeadline ==
    [][\A s \in LoopSchedulers :
          (proc[s].pc = "add_job" /\ job_seq' = job_seq + 1)
          => LET fire_time == Head(proc[s].fire_times)
                 schedule  == proc[s].schedules[proc[s].i]
                 job       == jobs'[job_seq']
             IN  /\ job.schedule_id = schedule.id
                 /\ job.scheduled_fire_time = fire_time
                 /\ job.start_deadline =
                        IF schedule.misfire_grace_time = NullInt THEN NullInt
                        ELSE fire_time + schedule.misfire_grace_time]_vars

\* The smallest next_fire_time in the schedules table, as a datetime.
MinNextFireTime(table) ==
    LET ts == {table[x].next_fire_time : x \in DOMAIN table} \ {NullInt}
    IN  IF ts = {} THEN <<>> ELSE <<Scalar("datetime", Earliest(ts))>>

\* C20: get_next_schedule_run_time returns the minimum next_fire_time of the
\* stored schedules that have one, a timestamp, and none exactly when no
\* schedule has one.
C20_NextRunTime ==
    [][\A s \in LoopSchedulers :
          (proc[s].pc = "sleep" /\ proc'[s].pc # "sleep"
                /\ last'.op = "get_next_schedule_run_time")
          => last'.ret = MinNextFireTime(schedules)]_vars

(***************************************************************************)
(* acquire_schedules called on the store by two schedulers with any limit, *)
(* while time passes and leases expire.  proc[s].found is the list the     *)
(* call of s has selected to return.                                       *)
(***************************************************************************)
ScheduleLimits == 1..MaxLimit

AcqIdle == [pc |-> "idle", limit |-> NullInt, found |-> <<>>]

\* SQL: the whole call, one transaction.
StoreAcquireSql(s) ==
    \E limit \in ScheduleLimits :
        /\ cfg.store = "sql"
        /\ proc[s].pc = "idle"
        /\ acquire_schedules_sql(s, limit)
        /\ proc' = [proc EXCEPT ![s] = [AcqIdle EXCEPT !.limit = limit, !.found = last'.ret]]
        /\ UNCHANGED <<now, tasks, jobs, job_results, job_seq, held, hist, cfg>>

\* MongoDB: find(), and the return of an empty list when it yields nothing.
StoreAcquireFind(s) ==
    \E limit \in ScheduleLimits :
        /\ cfg.store = "mongo"
        /\ proc[s].pc = "idle"
        /\ LET found == FindSchedules(schedules, now, limit)
           IN  IF found = <<>>
               THEN /\ acquire_schedules_none(s, limit)
                    /\ proc' = [proc EXCEPT ![s] = [AcqIdle EXCEPT !.limit = limit]]
               ELSE /\ UNCHANGED <<schedules, last>>
                    /\ proc' = [proc EXCEPT ![s] = [pc |-> "update", limit |-> limit,
                                                   found |-> found]]
        /\ UNCHANGED <<now, tasks, jobs, job_results, job_seq, held, hist, cfg>>

\* MongoDB: update_many() on the documents found, and the return.
StoreAcquireUpdate(s) ==
    /\ proc[s].pc = "update"
    /\ acquire_schedules_update(s, proc[s].limit, proc[s].found)
    /\ proc' = [proc EXCEPT ![s].pc = "idle"]
    /\ UNCHANGED <<now, tasks, jobs, job_results, job_seq, held, hist, cfg>>

InitAcq ==
    /\ now = 0
    /\ tasks = ("t1" :> Task("t1", NullInt, NullInt))
    /\ jobs = <<>>
    /\ job_results = <<>>
    /\ job_seq = 0
    /\ held = [w \in Workers |-> [j \in JobIds |-> [task_id |-> NullStr, n |-> 0]]]
    /\ last = Call("init", NullStr, NullStr, <<>>, FALSE, <<>>)
    /\ hist = [inserted |-> [j \in JobIds |-> 0], returned |-> [j \in JobIds |-> 0], added |-> 0]
    /\ \E ids \in SUBSET ScheduleIds : \E times \in [ids -> TriggerTimes] :
           schedules = [x \in ids |-> Stored(x, times[x], "latest")]
    /\ proc = [s \in Schedulers |-> AcqIdle]
    /\ \E store \in {"sql", "mongo"}, returning \in BOOLEAN :
           cfg = [store |-> store, returning |-> returning, scheduler |-> "sync"]

NextAcq ==
    \/ TickClock
    \/ \E s \in Schedulers : StoreAcquireSql(s)
    \/ \E s \in Schedulers : StoreAcquireFind(s)
    \/ \E s \in Schedulers : StoreAcquireUpdate(s)

SpecAcq == InitAcq /\ [][NextAcq]_vars

\* The step in which the call of s selects the schedules it returns: the SQL
\* call, MongoDB's find().
SelectsSchedules(s) ==
    \/ /\ cfg.store = "sql" /\ now' = now
       /\ last'.op = "acquire_schedules" /\ last'.who = s
       /\ last' # last \/ schedules' # schedules
    \/ /\ cfg.store = "mongo"
       /\ proc[s].pc = "idle" /\ proc'[s].pc = "update"

\* The step in which the call of s returns.
ReturnsSchedules(s) ==
    /\ now' = now
    /\ last'.op = "acquire_schedules" /\ last'.who = s
    /\ last' # last \/ schedules' # schedules

\* C23: every schedule an acquire_schedules call selects for return was, in
\* the store at that moment, due (next_fire_time not null and <= now) and
\* free (acquired_until null or < now).
C23_AcquiredWereDue ==
    [][\A s \in Schedulers :
          SelectsSchedules(s)
          => \A i \in DOMAIN proc'[s].found :
                 LET x == proc'[s].found[i].id
                 IN  /\ x \in DOMAIN schedules
                     /\ schedules[x].next_fire_time # NullInt
                     /\ schedules[x].next_fire_time <= now
                     /\ LeaseFree(schedules[x], now)]_vars

\* C24: a returning acquire_schedules(scheduler_id, limit) call hands back at
\* most limit schedules, exactly those whose row the call changed, each now
\* leased to scheduler_id until now + lock_expiration_delay; no other row
\* differs from before.
C24_AcquireFrame ==
    [][\A s \in Schedulers :
          ReturnsSchedules(s)
          => LET returned == ScheduleIdsOf(last'.ret)
             IN  /\ Len(last'.ret) <= last'.arg
                 /\ Cardinality(returned) = Len(last'.ret)
                 /\ DOMAIN schedules' = DOMAIN schedules
                 /\ returned = {x \in DOMAIN schedules : schedules'[x] # schedules[x]}
                 /\ \A x \in returned :
                        /\ schedules'[x].acquired_by = s
                        /\ schedules'[x].acquired_until = now + LockExpirationDelay]_vars

(***************************************************************************)
(* The tasks table used through two store objects.  A MongoDBDataStore     *)
(* keeps _local_tasks, the tasks it has added or fetched itself;           *)
(* proc[h].local_tasks is that dict's key set.  proc.call is the call      *)
(* made last: its arguments and the exception it raised.                   *)
(***************************************************************************)
Handles == {"h1", "h2"}

\* The tasks a client passes to add_task: for each id, three settings of
\* max_running_jobs and misfire_grace_time.
TaskInputs ==
    {Task(t, NullInt, NullInt) : t \in TaskIds}
        \cup {Task(t, 1, 1) : t \in TaskIds}
        \cup {Task(t, MaxRunningJobs, NullInt) : t \in TaskIds}

\* One worker runs the jobs of the tasks.
TaskWorkers == {"w1"}

NoCall == [op |-> "none", handle |-> NullStr, task |-> Task(NullStr, NullInt, NullInt),
           raised |-> "none"]

TaskCall(op, h, task, raised) == [op |-> op, handle |-> h, task |-> task, raised |-> raised]

\* add_task: the upsert, then MongoDB's self._local_tasks[task.id] = task.
HandleAddTask(h) ==
    \E task \in TaskInputs :
        /\ add_task(task)
        /\ proc' = [proc EXCEPT
                        ![h].local_tasks =
                            IF cfg.store = "mongo" THEN @ \cup {task.id} ELSE @,
                        !["call"] = TaskCall("add_task", h, task, "none")]
        /\ UNCHANGED <<now, jobs, job_results, job_seq, held, hist, schedules, cfg>>

\* get_task: MongoDB answers from _local_tasks when it can and remembers what
\* it fetched; TaskLookupError when the task is not stored.
HandleGetTask(h) ==
    \E t \in TaskIds :
        /\ LET cached == cfg.store = "mongo" /\ t \in proc[h].local_tasks
               found  == cached \/ t \in DOMAIN tasks
           IN  /\ last' = Call("get_task", h, t, IF found THEN <<t>> ELSE <<>>, ~found, <<>>)
               /\ proc' = [proc EXCEPT
                              ![h].local_tasks =
                                  IF cfg.store = "mongo" /\ found THEN @ \cup {t} ELSE @,
                              !["call"] = TaskCall("get_task", h, Task(t, NullInt, NullInt),
                                                   IF found THEN "none"
                                                   ELSE "TaskLookupError")]
        /\ UNCHANGED <<now, tasks, jobs, job_results, job_seq, held, hist, schedules, cfg>>

\* remove_task.  SQL: DELETE, TaskLookupError when rowcount is 0, else
\* TaskRemoved.  MongoDB: find_one_and_delete, TaskLookupError when it finds
\* nothing, then del self._local_tasks[task_id], which raises KeyError for a
\* task this store object has never added or fetched, then TaskRemoved.
HandleRemoveTask(h) ==
    \E t \in TaskIds :
        LET stored == t \in DOMAIN tasks
            raised == IF ~stored THEN "TaskLookupError"
                      ELSE IF cfg.store = "mongo" /\ t \notin proc[h].local_tasks
                      THEN "KeyError" ELSE "none"
        IN  /\ tasks' = Without(tasks, t)
            /\ last' = Call("remove_task", h, t, <<>>, raised # "none",
                            IF raised = "none" THEN <<Event("TaskRemoved", t)>> ELSE <<>>)
            /\ proc' = [proc EXCEPT
                           ![h].local_tasks = IF raised = "none" THEN @ \ {t} ELSE @,
                           !["call"] = TaskCall("remove_task", h, Task(t, NullInt, NullInt),
                                                raised)]
            /\ UNCHANGED <<now, jobs, job_results, job_seq, held, hist, schedules, cfg>>

InitTasks ==
    /\ now = 0
    /\ tasks = <<>>
    /\ jobs = <<>>
    /\ job_results = <<>>
    /\ job_seq = 0
    /\ held = [w \in Workers |-> [j \in JobIds |-> [task_id |-> NullStr, n |-> 0]]]
    /\ last = Call("init", NullStr, NullStr, <<>>, FALSE, <<>>)
    /\ hist = [inserted |-> [j \in JobIds |-> 0], returned |-> [j \in JobIds |-> 0], added |-> 0]
    /\ schedules = ("s1" :> Stored("s1", <<0>>, "latest"))
    /\ proc = [h \in Handles |-> [local_tasks |-> {}]] @@ ("call" :> NoCall)
    /\ \E store \in {"sql", "mongo"} :
           cfg = [store |-> store, returning |-> TRUE, scheduler |-> "sync"]

NextTasks ==
    \/ \E h \in Handles : HandleAddTask(h) \/ HandleGetTask(h) \/ HandleRemoveTask(h)
    \/ AddJob
    \/ \E w \in TaskWorkers : AcquireJobs(w)

SpecTasks == InitTasks /\ [][NextTasks]_vars

\* The step is a call of the named operation on the tasks table.
TaskCallStep(op) ==
    /\ proc'["call"].op = op
    /\ last'.op = op
    /\ <<tasks, last, proc>>' # <<tasks, last, proc>>

\* C26: add_task is an upsert that never changes running_jobs of an existing
\* task: the first insert of an id stores running_jobs = 0 and emits TaskAdded;
\* on an id already stored the other fields are overwritten by the argument,
\* running_jobs is kept, TaskUpdated is emitted; no other row changes.
C26_AddTaskUpsert ==
    [][TaskCallStep("add_task") =>
         LET task == proc'["call"].task
             existed == task.id \in DOMAIN tasks
         IN  /\ DOMAIN tasks' = DOMAIN tasks \cup {task.id}
             /\ \A t \in DOMAIN tasks \ {task.id} : tasks'[t] = tasks[t]
             /\ tasks'[task.id].max_running_jobs = task.max_running_jobs
             /\ tasks'[task.id].misfire_grace_time = task.misfire_grace_time
             /\ tasks'[task.id].running_jobs =
                    IF existed THEN tasks[task.id].running_jobs ELSE 0
             /\ last'.events = <<Event(IF existed THEN "TaskUpdated" ELSE "TaskAdded",
                                       task.id)>>
             /\ ~last'.err
             /\ UNCHANGED <<jobs, job_results, schedules>>]_vars

\* An add_task call has just overwritten a task that has jobs running.
C26_Witness ==
    /\ last.op = "add_task"
    /\ proc["call"].op = "add_task"
    /\ last.events = <<Event("TaskUpdated", last.arg)>>
    /\ last.arg \in DOMAIN tasks
    /\ tasks[last.arg].running_jobs > 0

\* C27: remove_task(id) fails with TaskLookupError and changes nothing when no
\* such task is stored; whenever the task is stored, also when it was added
\* through another store object, it deletes exactly that row, emits
\* TaskRemoved, raises no error and leaves jobs and schedules untouched.
C27_RemoveTask ==
    [][TaskCallStep("remove_task") =>
         LET id == proc'["call"].task.id
             raised == proc'["call"].raised
         IN  /\ UNCHANGED <<jobs, job_results, schedules>>
             /\ IF id \in DOMAIN tasks
                THEN /\ tasks' = Without(tasks, id)
                     /\ raised = "none"
                     /\ last'.events = <<Event("TaskRemoved", id)>>
                ELSE /\ tasks' = tasks
                     /\ raised = "TaskLookupError"
                     /\ last'.events = <<>>]_vars

(***************************************************************************)
(* The job store called by any client: release_job is a public operation   *)
(* of the store and takes whatever job id and task id the caller passes.   *)
(***************************************************************************)
MaxReleases == 2

ReleaseCall(w) ==
    \E j \in 1..job_seq, t \in DOMAIN tasks, outcome \in Outcomes :
        /\ hist.inserted[j] < MaxReleases
        /\ release_job(w, t, JobResult(j, outcome))
        /\ UNCHANGED <<now, job_seq, held, schedules, proc, cfg>>

NextCalls ==
    \/ Tick
    \/ AddTask
    \/ AddJob
    \/ \E w \in Workers : AcquireJobs(w)
    \/ \E w \in Workers : ReleaseCall(w)
    \/ GetJobResult

SpecCalls == Init /\ [][NextCalls]_vars

\* C29: for every task, running_jobs is never negative, whatever sequence of
\* acquire_jobs and release_job calls was made, release_job calls repeated
\* for the same job or made for a job that was never acquired included.
C29_RunningJobsNonNegative ==
    \A t \in DOMAIN tasks : tasks[t].running_jobs >= 0

(***************************************************************************)
(* release_job statement by statement.  The SQL store runs its three       *)
(* statements in one transaction (engine.begin()).  The MongoDB store      *)
(* opens a session and starts no transaction: each statement takes effect, *)
(* and is visible to every other operation, when it is executed, and a     *)
(* statement that raises undoes nothing.                                   *)
(***************************************************************************)
RelIdle == [pc |-> "idle", job |-> NullInt, task |-> NullStr]

\* A statement of the call can raise (connection lost, server error).
StatementFails == BOOLEAN

\* SQL: INSERT, UPDATE and DELETE commit together or not at all.
RelSql(w) ==
    \E j \in JobIds, outcome \in Outcomes, fails \in StatementFails :
        /\ cfg.store = "sql"
        /\ proc[w].pc = "idle"
        /\ held[w][j].n > 0
        /\ IF fails
           THEN /\ UNCHANGED <<tasks, jobs, job_results, hist>>
                /\ last' = Call("release_job", w, j, <<>>, TRUE, <<>>)
           ELSE release_job(w, held[w][j].task_id, JobResult(j, outcome))
        /\ held' = [held EXCEPT ![w][j].n = @ - 1]
        /\ UNCHANGED <<now, job_seq, schedules, proc, cfg>>

\* MongoDB: self._jobs_results.insert_one(document, session=session).
RelInsert(w) ==
    \E j \in JobIds, outcome \in Outcomes :
        /\ cfg.store = "mongo"
        /\ proc[w].pc = "idle"
        /\ held[w][j].n > 0
        /\ held' = [held EXCEPT ![w][j].n = @ - 1]
        /\ IF ResultInsertFails(JobResult(j, outcome))
           THEN /\ last' = Call("release_job", w, j, <<>>, TRUE, <<>>)
                /\ UNCHANGED <<job_results, hist, proc>>
           ELSE /\ job_results' = job_results @@ (j :> JobResult(j, outcome))
                /\ hist' = [hist EXCEPT !.inserted = Bump(@, j)]
                /\ proc' = [proc EXCEPT ![w] = [pc |-> "inserted", job |-> j,
                                                task |-> held[w][j].task_id]]
                /\ UNCHANGED last
        /\ UNCHANGED <<now, tasks, jobs, job_seq, schedules, cfg>>

\* MongoDB: self._tasks.find_one_and_update({'_id': task_id}, {'$inc': ...}).
RelDecrement(w) ==
    /\ proc[w].pc = "inserted"
    /\ tasks' = DecrementRunning(tasks, proc[w].task)
    /\ proc' = [proc EXCEPT ![w].pc = "decremented"]
    /\ UNCHANGED <<now, jobs, job_results, job_seq, held, last, hist, schedules, cfg>>

\* MongoDB: self._jobs.delete_one({'_id': result.job_id}); the session ends
\* and JobReleased is published.
RelDelete(w) ==
    /\ proc[w].pc = "decremented"
    /\ jobs' = DeleteJob(jobs, proc[w].job)
    /\ last' = Call("release_job", w, proc[w].job, <<>>, FALSE,
                    <<Event("JobReleased", proc[w].job)>>)
    /\ proc' = [proc EXCEPT ![w] = RelIdle]
    /\ UNCHANGED <<now, tasks, job_results, job_seq, held, hist, schedules, cfg>>

\* MongoDB: the second or the third statement raises; the with block is left
\* and the exception reaches the caller.  No transaction was started, so the
\* statements executed before stay in effect.
RelRaise(w) ==
    /\ proc[w].pc \in {"inserted", "decremented"}
    /\ last' = Call("release_job", w, proc[w].job, <<>>, TRUE, <<>>)
    /\ proc' = [proc EXCEPT ![w] = RelIdle]
    /\ UNCHANGED <<now, tasks, jobs, job_results, job_seq, held, hist, schedules, cfg>>

\* acquire_jobs by a worker that is not inside release_job.
RelAcquire(w) ==
    /\ proc[w].pc = "idle"
    /\ AcquireJobs(w)

InitRelease ==
    /\ now = 0
    /\ \E m \in MaxRunning :
           tasks = ("t1" :> [max_running_jobs |-> m, misfire_grace_time |-> NullInt,
                             running_jobs |-> 0])
    /\ jobs = <<>>
    /\ job_results = <<>>
    /\ job_seq = 0
    /\ held = [w \in Workers |-> [j \in JobIds |-> [task_id |-> NullStr, n |-> 0]]]
    /\ last = Call("init", NullStr, NullStr, <<>>, FALSE, <<>>)
    /\ hist = [inserted |-> [j \in JobIds |-> 0], returned |-> [j \in JobIds |-> 0], added |-> 0]
    /\ schedules = <<>>
    /\ proc = [w \in Workers |-> RelIdle]
    /\ \E store \in {"sql", "mongo"} :
           cfg = [store |-> store, returning |-> TRUE, scheduler |-> "sync"]

NextRelease ==
    \/ AddJob
    \/ GetJobResult
    \/ \E w \in Workers : RelAcquire(w)
    \/ \E w \in Workers : RelSql(w)
    \/ \E w \in Workers : RelInsert(w) \/ RelDecrement(w) \/ RelDelete(w) \/ RelRaise(w)

SpecRelease == InitRelease /\ [][NextRelease]_vars

\* C25: release_job is atomic: no state that another store operation can
\* observe, and no state left behind by a failed statement of the call, has
\* only part of {result row inserted, running_jobs decremented, job row
\* deleted}: a job with a result row has no job row, and each task's
\* running_jobs counts exactly its leased job rows.
C25_ReleaseAtomic ==
    /\ \A j \in DOMAIN job_results : j \notin DOMAIN jobs
    /\ \A t \in DOMAIN tasks : tasks[t].running_jobs = AcquiredCount(t)

(***************************************************************************)
(* Scenario S1: one task with max_running_jobs = 2, five jobs, one worker  *)
(* that calls acquire_jobs again and again and releases every job each     *)
(* call returned to it.  proc.w1[j] is the number of releases of job j the  *)
(* worker still owes.                                                      *)
(***************************************************************************)
ScenarioJobs == 5

ScenarioMaxRunning == 2

ScenarioJobIds == 1..ScenarioJobs

S1AddJob ==
    /\ job_seq < ScenarioJobs
    /\ add_job(Job("t1", NullStr, NullInt, NullInt))
    /\ UNCHANGED <<now, tasks, job_results, held, hist, schedules, proc, cfg>>

S1Acquire ==
    \E limit \in Limits :
        /\ acquire_jobs("w1", limit)
        /\ proc' = [proc EXCEPT !["w1"] =
                        [j \in ScenarioJobIds |->
                            IF j \in Range(last'.ret) THEN @[j] + 1 ELSE @[j]]]
        /\ UNCHANGED <<now, job_results, job_seq, held, hist, schedules, cfg>>

S1Release ==
    \E j \in ScenarioJobIds, outcome \in Outcomes :
        /\ proc["w1"][j] > 0
        /\ release_job("w1", "t1", JobResult(j, outcome))
        /\ proc' = [proc EXCEPT !["w1"][j] = @ - 1]
        /\ UNCHANGED <<now, job_seq, held, schedules, cfg>>

InitS1 ==
    /\ now = 0
    /\ tasks = ("t1" :> [max_running_jobs |-> ScenarioMaxRunning,
                         misfire_grace_time |-> NullInt, running_jobs |-> 0])
    /\ jobs = <<>>
    /\ job_results = <<>>
    /\ job_seq = 0
    /\ held = <<>>
    /\ last = Call("init", NullStr, NullStr, <<>>, FALSE, <<>>)
    /\ hist = [inserted |-> [j \in ScenarioJobIds |-> 0],
               returned |-> [j \in ScenarioJobIds |-> 0], added |-> 0]
    /\ schedules = <<>>
    /\ proc = ("w1" :> [j \in ScenarioJobIds |-> 0])
    /\ \E store \in {"sql", "mongo"} :
           cfg = [store |-> store, returning |-> TRUE, scheduler |-> "sync"]

NextS1 ==
    \/ TickClock
    \/ S1AddJob
    \/ S1Acquire
    \/ S1Release

SpecS1 == InitS1 /\ [][NextS1]_vars

\* The client adds its five jobs and the worker's loop keeps running.
SpecS1Fair == SpecS1 /\ WF_vars(S1AddJob) /\ WF_vars(S1Acquire) /\ WF_vars(S1Release)

S1Done ==
    /\ DOMAIN job_results = ScenarioJobIds
    /\ jobs = <<>>
    /\ tasks["t1"].running_jobs = 0

\* C28: scenario S1: the system eventually reaches a state with 5 job
\* results, no job rows and running_jobs = 0, and at no instant are more
\* than 2 jobs of the task leased.
C28_ScenarioS1 ==
    /\ <>S1Done
    /\ [](AcquiredCount("t1") <= ScenarioMaxRunning)

(***************************************************************************)
(* One scheduler running its loop alone against a store that holds a batch *)
(* of schedules: nothing else touches the schedules table.                 *)
(***************************************************************************)
MaxBatchJobs == 3

\* The wait between two iterations ends, while there are jobs left to add.
BatchSleep(s) ==
    /\ job_seq < MaxBatchJobs
    /\ RunSleep(s)

InitBatch ==
    /\ now = 0
    /\ tasks = ("t1" :> Task("t1", NullInt, NullInt))
    /\ jobs = <<>>
    /\ job_results = <<>>
    /\ job_seq = 0
    /\ held = [w \in Workers |-> [j \in JobIds |-> [task_id |-> NullStr, n |-> 0]]]
    /\ last = Call("init", NullStr, NullStr, <<>>, FALSE, <<>>)
    /\ hist = [inserted |-> [j \in JobIds |-> 0], returned |-> [j \in JobIds |-> 0], added |-> 0]
    /\ \E ids \in SUBSET ScheduleIds : \E times \in [ids -> TriggerTimes] :
           schedules = [x \in ids |-> Stored(x, times[x], "latest")]
    /\ proc = [s \in TickSchedulers |-> SchedIdle]
    /\ \E store \in {"sql", "mongo"}, scheduler \in {"sync", "async"} :
           cfg = [store |-> store, returning |-> TRUE, scheduler |-> scheduler]

NextBatch ==
    \/ TickClock
    \/ \E s \in TickSchedulers : RunAcquireSql(s)
    \/ \E s \in TickSchedulers : RunAcquireFind(s)
    \/ \E s \in TickSchedulers : RunAcquireUpdate(s)
    \/ \E s \in TickSchedulers : RunNow(s)
    \/ \E s \in TickSchedulers : RunCompute(s)
    \/ \E s \in TickSchedulers : RunAddJob(s)
    \/ \E s \in TickSchedulers : RunRelease(s)
    \/ \E s \in TickSchedulers : BatchSleep(s)

SpecBatch == InitBatch /\ [][NextBatch]_vars

\* C30: at the end of an iteration of the loop that nothing interfered with,
\* every schedule the iteration acquired, the first and every later one of
\* the batch, is either deleted (its trigger is exhausted) or stored with its
\* lease cleared and next_fire_time set to the first output of its trigger
\* later than the iteration's now; none keeps its old, past next_fire_time.
C30_TickReleasesAll ==
    \A s \in TickSchedulers :
        proc[s].pc = "sleep" =>
            \A k \in DOMAIN proc[s].acquired :
                LET acquired == proc[s].acquired[k]
                    future   == FutureTimes(acquired, proc[s].now)
                IN  IF future = {}
                    THEN acquired.id \notin DOMAIN schedules
                    ELSE /\ acquired.id \in DOMAIN schedules
                         /\ schedules[acquired.id].acquired_by = NullStr
                         /\ schedules[acquired.id].next_fire_time = Earliest(future)

\* The earliest next_fire_time stored, NullInt when no schedule has one.
EarliestStored ==
    LET ts == {schedules[x].next_fire_time : x \in DOMAIN schedules} \ {NullInt}
    IN  IF ts = {} THEN NullInt ELSE Earliest(ts)

\* C21: after an iteration that acquired fewer than 100 schedules, when the
\* earliest stored next_fire_time is a time T in the future, the scheduler
\* waits for a wakeup at most T - now, a wait that is neither negative nor
\* unbounded, so that without a wakeup the next iteration starts at T.
C21_SleepUntilDue ==
    [][\A s \in LoopSchedulers :
          (/\ proc[s].pc = "sleep" /\ proc'[s].pc \in {"wait", "raise"}
           /\ Len(proc[s].schedules) < SchedulerLimit
           /\ EarliestStored # NullInt /\ EarliestStored > now)
          => (/\ proc'[s].pc = "wait"
              /\ proc'["life"].wait_time = EarliestStored - now)]_vars

(***************************************************************************)
(* A client adds a schedule while a started scheduler runs its loop.       *)
(* add_schedule is taken statement by statement: the SQL store executes    *)
(* the INSERT, publishes ScheduleAdded and then leaves the transaction     *)
(* block, which commits; until then the row is in proc.client only, where  *)
(* no other connection sees it.  The MongoDB store inserts the document,   *)
(* visible at once, and then publishes.                                    *)
(***************************************************************************)
ClientIdle == [pc |-> "idle", schedule |-> <<>>]

\* Triggers of the schedule added: due at once, or one unit of time later.
WakeTimes == {<<0>>, <<1>>}

\* conn.execute(insert) / self._schedules.insert_one(document)
AddInsert ==
    \E times \in WakeTimes :
        /\ proc["client"].pc = "idle"
        /\ "s1" \notin DOMAIN schedules
        /\ schedules' = IF cfg.store = "mongo"
                        THEN schedules @@ ("s1" :> Stored("s1", times, "latest"))
                        ELSE schedules
        /\ proc' = [proc EXCEPT !["client"] =
                       [pc |-> "inserted", schedule |-> <<Stored("s1", times, "latest")>>]]
        /\ UNCHANGED <<now, tasks, jobs, job_results, job_seq, held, last, hist, cfg>>

\* self._events.publish(ScheduleAdded(...)): the scheduler's subscriber sets
\* the wakeup event.
AddPublish ==
    /\ proc["client"].pc = "inserted"
    /\ proc' = [proc EXCEPT !["client"].pc = IF cfg.store = "mongo" THEN "done"
                                             ELSE "published",
                            !["life"] = Wakeup(@, <<Event("ScheduleAdded", "s1")>>)]
    /\ last' = IF cfg.store = "mongo"
               THEN Call("add_schedule", NullStr, "s1", <<>>, FALSE,
                         <<Event("ScheduleAdded", "s1")>>)
               ELSE last
    /\ UNCHANGED <<now, tasks, jobs, job_results, job_seq, held, hist, schedules, cfg>>

\* The end of the block with self.engine.begin() as conn: COMMIT.
AddCommit ==
    /\ proc["client"].pc = "published"
    /\ schedules' = schedules @@ ("s1" :> proc["client"].schedule[1])
    /\ proc' = [proc EXCEPT !["client"].pc = "done"]
    /\ last' = Call("add_schedule", NullStr, "s1", <<>>, FALSE,
                    <<Event("ScheduleAdded", "s1")>>)
    /\ UNCHANGED <<now, tasks, jobs, job_results, job_seq, held, hist, cfg>>

InitWake ==
    /\ now = 0
    /\ tasks = ("t1" :> Task("t1", NullInt, NullInt))
    /\ jobs = <<>>
    /\ job_results = <<>>
    /\ job_seq = 0
    /\ held = [w \in Workers |-> [j \in JobIds |-> [task_id |-> NullStr, n |-> 0]]]
    /\ last = Call("init", NullStr, NullStr, <<>>, FALSE, <<>>)
    /\ hist = [inserted |-> [j \in JobIds |-> 0], returned |-> [j \in JobIds |-> 0], added |-> 0]
    /\ schedules = <<>>
    /\ proc = [s \in LoopSchedulers |-> [SchedIdle EXCEPT !.pc = "check"]]
                  @@ ("life" :> [LifeInit EXCEPT !.state = "started",
                                                 !.wakeup_event = "unset",
                                                 !.subscribed = TRUE,
                                                 !.main = "entered",
                                                 !.started = TRUE])
                  @@ ("client" :> ClientIdle)
    /\ \E store \in {"sql", "mongo"}, scheduler \in {"sync", "async"} :
           cfg = [store |-> store, returning |-> TRUE, scheduler |-> scheduler]

\* One statement of the thread running run(), which nothing stops.
WakeStep(s) ==
    \/ LoopCheck(s)
    \/ RunAcquireSql(s)
    \/ RunAcquireFind(s)
    \/ RunAcquireUpdate(s)
    \/ RunNow(s)
    \/ RunCompute(s)
    \/ RunAddJob(s)
    \/ LoopRelease(s)
    \/ LoopNextRunTime(s)
    \/ LoopWait(s)
    \/ LoopReplace(s)
    \/ LoopRaise(s)

NextWake ==
    \/ TickClock
    \/ AddInsert
    \/ AddPublish
    \/ AddCommit
    \/ \E s \in LoopSchedulers : WakeStep(s)

SpecWake == InitWake /\ [][NextWake]_vars

\* The thread of run() keeps running and a call of add_schedule, once begun,
\* runs to its end.
SpecWakeFair ==
    /\ SpecWake
    /\ \A s \in LoopSchedulers : WF_vars(WakeStep(s))
    /\ WF_vars(AddPublish)
    /\ WF_vars(AddCommit)

\* C22: a schedule that add_schedule stored while a started scheduler runs,
\* however the INSERT, the publication of ScheduleAdded and the commit fall
\* between the statements of the loop, is acquired by a later iteration once
\* it is due, which creates its job: the scheduler never stays asleep for
\* good while a due, unleased schedule is in the store.
C22_WakeupLiveness ==
    \A x \in ScheduleIds :
        (/\ x \in DOMAIN schedules
         /\ schedules[x].next_fire_time # NullInt
         /\ schedules[x].next_fire_time <= now
         /\ schedules[x].acquired_by = NullStr)
        ~> (\E j \in DOMAIN jobs : jobs[j].schedule_id = x)

(***************************************************************************)
(* The events of release_schedules, with two schedulers and leases that    *)
(* expire.                                                                 *)
(***************************************************************************)
\* C31: a release_schedules call by scheduler s publishes ScheduleUpdated only
\* for a schedule that it updated, ScheduleRemoved only for a schedule that it
\* deleted, and no event for a schedule whose acquired_by is not s.
C31_ReleaseEvents ==
    [][\A s \in Schedulers :
          (proc[s].pc = "release" /\ proc'[s].pc # "release")
          => \A i \in DOMAIN last'.events :
                 /\ last'.events[i].id \in DOMAIN schedules
                 /\ schedules[last'.events[i].id].acquired_by = s
                 /\ last'.events[i].type = "ScheduleUpdated"
                    => /\ last'.events[i].id \in DOMAIN schedules'
                       /\ schedules'[last'.events[i].id].acquired_by = NullStr
                 /\ last'.events[i].type = "ScheduleRemoved"
                    => last'.events[i].id \notin DOMAIN schedules']_vars

(***************************************************************************)
(* A started scheduler whose batch limit is reached: run() with the limit  *)
(* of acquire_schedules scaled down to the number of stored schedules.     *)
(***************************************************************************)
\* Stands for the 100 of acquire_schedules(self.identity, 100) and of
\* len(schedules) < 100.
BatchLimit == 2

FullTimes == {<<0>>, <<0, 1>>, <<0, MaxTime>>}

InitFull ==
    /\ now = 0
    /\ tasks = ("t1" :> Task("t1", NullInt, NullInt))
    /\ jobs = <<>>
    /\ job_results = <<>>
    /\ job_seq = 0
    /\ held = [w \in Workers |-> [j \in JobIds |-> [task_id |-> NullStr, n |-> 0]]]
    /\ last = Call("init", NullStr, NullStr, <<>>, FALSE, <<>>)
    /\ hist = [inserted |-> [j \in JobIds |-> 0], returned |-> [j \in JobIds |-> 0], added |-> 0]
    /\ \E ids \in SUBSET ScheduleIds : \E times \in [ids -> FullTimes] :
           schedules = [x \in ids |-> Stored(x, times[x], "latest")]
    /\ proc = [s \in LoopSchedulers |-> [SchedIdle EXCEPT !.pc = "check"]]
                  @@ ("life" :> [LifeInit EXCEPT !.state = "started",
                                                 !.wakeup_event = "unset",
                                                 !.subscribed = TRUE,
                                                 !.main = "entered",
                                                 !.started = TRUE])
    /\ \E store \in {"sql", "mongo"}, scheduler \in {"sync", "async"} :
           cfg = [store |-> store, returning |-> TRUE, scheduler |-> scheduler]

FullAcquireSql(s) == RunAcquireSqlUpTo(s, BatchLimit)

FullAcquireFind(s) == RunAcquireFindUpTo(s, BatchLimit)

FullAcquireUpdate(s) == RunAcquireUpdateUpTo(s, BatchLimit)

FullNextRunTime(s) == LoopNextRunTimeUpTo(s, BatchLimit)

\* One statement of the thread running run(), which nothing stops.
FullStep(s) ==
    \/ LoopCheck(s)
    \/ FullAcquireSql(s)
    \/ FullAcquireFind(s)
    \/ FullAcquireUpdate(s)
    \/ RunNow(s)
    \/ RunCompute(s)
    \/ RunAddJob(s)
    \/ LoopRelease(s)
    \/ FullNextRunTime(s)
    \/ LoopWait(s)
    \/ LoopReplace(s)
    \/ LoopRaise(s)

NextFull ==
    \/ TickClock
    \/ \E s \in LoopSchedulers : FullStep(s)

SpecFull == InitFull /\ [][NextFull]_vars

\* The thread of run() keeps running.
SpecFullFair == SpecFull /\ \A s \in LoopSchedulers : WF_vars(FullStep(s))

\* C32: after an iteration whose acquire_schedules returned as many
\* schedules as the limit, run() goes on to the next iteration: it reaches
\* the loop condition again without a timeout and without a wakeup from
\* elsewhere, whatever events release_schedules published.
C32_FullBatchLoops ==
    \A s \in LoopSchedulers :
        (proc[s].pc = "wait" /\ Len(proc[s].schedules) = BatchLimit)
            ~> (proc[s].pc = "check")

(***************************************************************************)
(* The jobs acquire_jobs admits and the jobs it skips.                     *)
(***************************************************************************)
\* Two tasks, one of them with a single slot, jobs added to both, and one
\* worker that acquires with any limit, lets leases expire and releases.
InitSkip ==
    /\ now = 0
    /\ \E m \in MaxRunning :
           tasks = [t \in TaskIds |->
                       [max_running_jobs |-> IF t = "t1" THEN 1 ELSE m,
                        misfire_grace_time |-> NullInt, running_jobs |-> 0]]
    /\ jobs = <<>>
    /\ job_results = <<>>
    /\ job_seq = 0
    /\ held = [w \in Workers |-> [j \in JobIds |-> [task_id |-> NullStr, n |-> 0]]]
    /\ last = Call("init", NullStr, NullStr, <<>>, FALSE, <<>>)
    /\ hist = [inserted |-> [j \in JobIds |-> 0], returned |-> [j \in JobIds |-> 0], added |-> 0]
    /\ schedules = <<>>
    /\ proc = <<>>
    /\ cfg = [store |-> "sql", returning |-> TRUE, scheduler |-> "sync"]

NextSkip ==
    \/ Tick
    \/ AddJob
    \/ \E w \in TaskWorkers : AcquireJobs(w)
    \/ \E w \in TaskWorkers : ReleaseJob(w)

SpecSkip == InitSkip /\ [][NextSkip]_vars

\* The jobs with an absent or expired lease that were created before job j.
EarlierFreeJobs(j) ==
    {k \in DOMAIN jobs : LeaseFree(jobs[k], now) /\ jobs[k].created_at < jobs[j].created_at}

\* Job j, of a stored task, is among the first limit jobs without a lease,
\* and its task has a slot left for it after the earlier ones of the same task.
HasSlot(j, limit) ==
    /\ jobs[j].task_id \in DOMAIN tasks
    /\ LeaseFree(jobs[j], now)
    /\ limit # NullInt => Cardinality(EarlierFreeJobs(j)) < limit
    /\ tasks[jobs[j].task_id].max_running_jobs # NullInt
       => Cardinality({k \in EarlierFreeJobs(j) : jobs[k].task_id = jobs[j].task_id})
              < tasks[jobs[j].task_id].max_running_jobs - tasks[jobs[j].task_id].running_jobs

InitLease ==
    /\ now = 0
    /\ tasks = ("t1" :> [max_running_jobs |-> NullInt, misfire_grace_time |-> NullInt,
                         running_jobs |-> 0])
    /\ jobs = <<>>
    /\ job_results = <<>>
    /\ job_seq = 0
    /\ held = [w \in Workers |-> [j \in JobIds |-> [task_id |-> NullStr, n |-> 0]]]
    /\ last = Call("init", NullStr, NullStr, <<>>, FALSE, <<>>)
    /\ hist = [inserted |-> [j \in JobIds |-> 0], returned |-> [j \in JobIds |-> 0], added |-> 0]
    /\ schedules = <<>>
    /\ proc = [s \in TickSchedulers |-> SchedIdle] @@ ("client" :> [pc |-> "idle"])
    /\ \E store \in {"sql", "mongo"} :
           cfg = [store |-> store, returning |-> TRUE, scheduler |-> "sync"]

\* A worker's acquire_jobs call without a limit.
LeaseAcquireJobs(w) ==
    /\ acquire_jobs(w, NullInt)
    /\ UNCHANGED <<now, job_results, job_seq, held, hist, schedules, proc, cfg>>

NextLease ==
    \/ TickClock
    \/ ClientAddSchedule
    \/ \E s \in TickSchedulers : RunAcquireSql(s)
    \/ \E s \in TickSchedulers : RunAcquireFind(s)
    \/ \E s \in TickSchedulers : RunAcquireUpdate(s)
    \/ \E s \in TickSchedulers : RunNow(s)
    \/ \E s \in TickSchedulers : RunCompute(s)
    \/ \E s \in TickSchedulers : RunAddJob(s)
    \/ \E s \in TickSchedulers : RunRelease(s)
    \/ \E s \in TickSchedulers : RunSleep(s)
    \/ \E w \in TaskWorkers : LeaseAcquireJobs(w)

SpecLease == InitLease /\ [][NextLease]_vars

\* C34: in every state of the store, every schedule and every job has
\* acquired_by null exactly when acquired_until is null.
C34_LeasePaired ==
    /\ \A x \in DOMAIN schedules :
           schedules[x].acquired_by = NullStr <=> schedules[x].acquired_until = NullInt
    /\ \A j \in DOMAIN jobs :
           jobs[j].acquired_by = NullStr <=> jobs[j].acquired_until = NullInt

\* A schedule that was acquired and released is stored without a lease
\* next to a job that a worker has leased.
C34_Witness ==
    /\ \E x \in DOMAIN schedules :
           /\ schedules[x].acquired_by = NullStr
           /\ \E j \in DOMAIN jobs : jobs[j].schedule_id = x
    /\ \E j \in DOMAIN jobs : jobs[j].acquired_by # NullStr /\ jobs[j].acquired_until # NullInt

(***************************************************************************)
(* last_fire_time of a schedule after an iteration of the loop.            *)
(***************************************************************************)
\* The jobs the current iteration of scheduler s created for schedule x.
JobsOfTick(s, x) ==
    {j \in DOMAIN jobs : j > proc[s].first_job /\ jobs[j].schedule_id = x}

\* C35: once an iteration has created jobs for a schedule and released it,
\* the stored schedule has last_fire_time equal to the fire time of the last
\* job the iteration created for it.
C35_LastFireTime ==
    \A s \in TickSchedulers :
        proc[s].pc = "sleep"
        => \A x \in ScheduleIdsOf(proc[s].schedules) \cap DOMAIN schedules :
               JobsOfTick(s, x) # {}
               => schedules[x].last_fire_time =
                      jobs[CHOOSE j \in JobsOfTick(s, x) :
                               \A k \in JobsOfTick(s, x) : k <= j].scheduled_fire_time

(***************************************************************************)
(* Publication and commit.  The tables are what is committed and visible   *)
(* to other store calls; proc.tx holds the transaction of the call in      *)
(* progress: what it has written and not yet committed.  Events are        *)
(* delivered to the subscribers, synchronously, when they are published.   *)
(***************************************************************************)
TxIdle ==
    [pc |-> "idle", op |-> "none", who |-> NullStr, arg |-> NullStr,
     tasks |-> <<>>, jobs |-> <<>>, schedules |-> <<>>]

\* A call that has published its events inside its with self.engine.begin()
\* block: the block has still to end.
TxPublished(op, who, arg, tasksTable, jobsTable, schedulesTable) ==
    [pc |-> "published", op |-> op, who |-> who, arg |-> arg,
     tasks |-> tasksTable, jobs |-> jobsTable, schedules |-> schedulesTable]

\* add_task.  SQL: the INSERT commits and TaskAdded follows; on
\* IntegrityError the UPDATE, with TaskUpdated published inside its block.
\* MongoDB: find_one_and_update, then the event.
PubAddTask ==
    \E task \in TaskInputs :
        /\ proc["tx"].pc # "published"
        /\ IF cfg.store = "sql" /\ task.id \in DOMAIN tasks
           THEN /\ proc' = [proc EXCEPT !["tx"] =
                               TxPublished("add_task", NullStr, task.id,
                                           TasksAfterAdd(task), jobs, schedules)]
                /\ last' = Call("add_task", NullStr, task.id, <<>>, FALSE,
                                <<Event("TaskUpdated", task.id)>>)
                /\ UNCHANGED tasks
           ELSE /\ add_task(task)
                /\ proc' = [proc EXCEPT !["tx"] = TxIdle]
        /\ UNCHANGED <<now, jobs, job_results, job_seq, held, hist, schedules, cfg>>

\* remove_task.  SQL: the DELETE, with TaskRemoved published inside its
\* block.  MongoDB: find_one_and_delete, then del self._local_tasks[task_id],
\* which raises KeyError when this store object does not hold the task,
\* then the event.
PubRemoveTask ==
    \E t \in TaskIds, local \in BOOLEAN :
        /\ proc["tx"].pc # "published"
        /\ IF t \notin DOMAIN tasks
           THEN /\ last' = Call("remove_task", NullStr, t, <<>>, TRUE, <<>>)
                /\ proc' = [proc EXCEPT !["tx"] = TxIdle]
                /\ UNCHANGED tasks
           ELSE IF cfg.store = "sql"
           THEN /\ proc' = [proc EXCEPT !["tx"] =
                               TxPublished("remove_task", NullStr, t,
                                           Without(tasks, t), jobs, schedules)]
                /\ last' = Call("remove_task", NullStr, t, <<>>, FALSE,
                                <<Event("TaskRemoved", t)>>)
                /\ UNCHANGED tasks
           ELSE /\ tasks' = Without(tasks, t)
                /\ last' = Call("remove_task", NullStr, t, <<>>, ~local,
                                IF local THEN <<Event("TaskRemoved", t)>> ELSE <<>>)
                /\ proc' = [proc EXCEPT !["tx"] = TxIdle]
        /\ UNCHANGED <<now, jobs, job_results, job_seq, held, hist, schedules, cfg>>

\* add_schedule.  SQL: the INSERT, with ScheduleAdded published inside its
\* block; the paths of a duplicate id publish after theirs.  MongoDB:
\* insert_one, then the event.
PubAddSchedule ==
    \E id \in ScheduleIds, conflict_policy \in ConflictPolicies :
        /\ proc["tx"].pc # "published"
        /\ IF cfg.store = "sql" /\ id \notin DOMAIN schedules
           THEN /\ proc' = [proc EXCEPT !["tx"] =
                               TxPublished("add_schedule", NullStr, id, tasks, jobs,
                                           schedules @@ (id :> Stored(id, <<0>>, "latest")))]
                /\ last' = Call("add_schedule", NullStr, id, <<>>, FALSE,
                                <<Event("ScheduleAdded", id)>>)
                /\ UNCHANGED schedules
           ELSE /\ add_schedule(Stored(id, <<0>>, "latest"), conflict_policy)
                /\ proc' = [proc EXCEPT !["tx"] = TxIdle]
        /\ UNCHANGED <<now, tasks, jobs, job_results, job_seq, held, hist, cfg>>

\* acquire_jobs.  SQL: the two UPDATEs, with JobAcquired published inside
\* the block.  MongoDB: a session without a transaction.
PubAcquireJobs(w) ==
    \E limit \in Limits : \E acquired \in {AcquiredJobs(limit)} :
        /\ proc["tx"].pc # "published"
        /\ IF cfg.store = "sql" /\ acquired # <<>>
           THEN /\ proc' = [proc EXCEPT !["tx"] =
                               TxPublished("acquire_jobs", w, JobIdsOf(acquired),
                                           AddRunning(tasks, Increments(acquired)),
                                           MarkAcquired(jobs, JobIdsOf(acquired), w,
                                                        now + LockExpirationDelay),
                                           schedules)]
                /\ last' = Call("acquire_jobs", w, limit,
                                [i \in DOMAIN acquired |-> acquired[i].id], FALSE,
                                [i \in DOMAIN acquired |->
                                    Event("JobAcquired", acquired[i].id)])
                /\ UNCHANGED <<tasks, jobs>>
           ELSE /\ acquire_jobs(w, limit)
                /\ proc' = [proc EXCEPT !["tx"] = TxIdle]
        /\ UNCHANGED <<now, job_results, job_seq, held, hist, schedules, cfg>>

PubAddJob ==
    /\ proc["tx"].pc # "published"
    /\ AddJob

\* The block ends: COMMIT.
PubCommit ==
    /\ proc["tx"].pc = "published"
    /\ tasks' = proc["tx"].tasks
    /\ jobs' = proc["tx"].jobs
    /\ schedules' = proc["tx"].schedules
    /\ proc' = [proc EXCEPT !["tx"] = TxIdle]
    /\ UNCHANGED <<now, job_results, job_seq, held, last, hist, cfg>>

\* The block is left with an exception, raised by a subscriber in publish()
\* or by the COMMIT: ROLLBACK.
PubRollback ==
    /\ proc["tx"].pc = "published"
    /\ proc' = [proc EXCEPT !["tx"].pc = "rolled_back"]
    /\ UNCHANGED <<now, tasks, jobs, job_results, job_seq, held, last, hist, schedules, cfg>>

InitPub ==
    /\ now = 0
    /\ tasks = <<>>
    /\ jobs = <<>>
    /\ job_results = <<>>
    /\ job_seq = 0
    /\ held = [w \in Workers |-> [j \in JobIds |-> [task_id |-> NullStr, n |-> 0]]]
    /\ last = Call("init", NullStr, NullStr, <<>>, FALSE, <<>>)
    /\ hist = [inserted |-> [j \in JobIds |-> 0], returned |-> [j \in JobIds |-> 0], added |-> 0]
    /\ schedules = <<>>
    /\ proc = ("tx" :> TxIdle)
    /\ \E store \in {"sql", "mongo"} :
           cfg = [store |-> store, returning |-> TRUE, scheduler |-> "sync"]

NextPub ==
    \/ PubAddTask
    \/ PubRemoveTask
    \/ PubAddSchedule
    \/ PubAddJob
    \/ \E w \in TaskWorkers : PubAcquireJobs(w)
    \/ PubCommit
    \/ PubRollback

SpecPub == InitPub /\ [][NextPub]_vars

\* What a subscriber that reads the store finds of the change the published
\* event reports.
ChangeVisible(tx) ==
    CASE tx.op = "add_schedule" -> tx.arg \in DOMAIN schedules
      [] tx.op = "add_task"     -> tx.arg \in DOMAIN tasks /\ tasks[tx.arg] = tx.tasks[tx.arg]
      [] tx.op = "remove_task"  -> tx.arg \notin DOMAIN tasks
      [] tx.op = "acquire_jobs" -> \A j \in tx.arg : jobs[j].acquired_by = tx.who
      [] OTHER                  -> TRUE

\* C36: when ScheduleAdded, TaskUpdated, TaskRemoved or JobAcquired is
\* delivered, the change it reports is committed: a subscriber that reads
\* the store sees it, and the change is never rolled back afterwards.
C36_PublishedAfterCommit ==
    /\ proc["tx"].pc = "published" => ChangeVisible(proc["tx"])
    /\ proc["tx"].pc # "rolled_back"

(***************************************************************************)
(* Two concurrent calls of Scheduler.get_job_result(job_id, wait=True),    *)
(* and one worker that runs and releases the jobs.                         *)
(***************************************************************************)
Waiters == {"caller", "caller2"}

InitWaiters ==
    /\ now = 0
    /\ tasks = ("t1" :> [max_running_jobs |-> NullInt, misfire_grace_time |-> NullInt,
                         running_jobs |-> 0])
    /\ jobs = <<>>
    /\ job_results = <<>>
    /\ job_seq = 0
    /\ held = [w \in Workers |-> [j \in JobIds |-> [task_id |-> NullStr, n |-> 0]]]
    /\ last = Call("init", NullStr, NullStr, <<>>, FALSE, <<>>)
    /\ hist = [inserted |-> [j \in JobIds |-> 0], returned |-> [j \in JobIds |-> 0], added |-> 0]
    /\ schedules = <<>>
    /\ proc = [w \in TaskWorkers |-> [pending |-> <<>>]] @@ [c \in Waiters |-> CallIdle]
    /\ cfg \in {[store |-> st, returning |-> TRUE, scheduler |-> "sync"] :
                    st \in {"sql", "mongo"}}

WaiterSubscribe(c) == CallSubscribeBy(c, JobIds, {TRUE})

WaiterPublish(w) == WorkerPublishTo(w, Waiters)

NextWaiters ==
    \/ AddJob
    \/ \E w \in TaskWorkers : AcquireJobs(w)
    \/ \E w \in TaskWorkers : WorkerRelease(w)
    \/ \E w \in TaskWorkers : WaiterPublish(w)
    \/ \E c \in Waiters : WaiterSubscribe(c)
    \/ \E c \in Waiters : CallFirstGetBy(c)
    \/ \E c \in Waiters : CallWaitBy(c)
    \/ \E c \in Waiters : CallSecondGetBy(c)

SpecWaiters == InitWaiters /\ [][NextWaiters]_vars

\* C37: the assertion after the second store read of get_job_result never
\* fails: a call that JobReleased woke gets a JobResult from its second
\* read, also when another call waits for the same job id.
C37_AssertionHolds == \A c \in Waiters : proc[c].pc # "assertion_failed"


(***************************************************************************)
(* Scheduler.add_schedule and Scheduler.add_job called with a callable.    *)
(***************************************************************************)
Callables == {"f1", "f2"}

\* The task id derived from the callable: a stable name, one per callable.
callable_to_ref(func) == IF func = "f1" THEN "t1" ELSE "t2"

\* Task(id=callable_to_ref(func), func=func): no constraint is passed, so
\* max_running_jobs and misfire_grace_time take the structure's defaults.
CallableTask(func) == Task(callable_to_ref(func), NullInt, NullInt)

CallableCall(op, task_id) == [op |-> op, task_id |-> task_id]

\* data_store.add_task(task) with explicit execution constraints.
ConfigureTask ==
    \E task \in TaskInputs :
        /\ add_task(task)
        /\ proc' = ("call" :> CallableCall("add_task", task.id))
        /\ UNCHANGED <<now, jobs, job_results, job_seq, held, hist, schedules, cfg>>

\* Scheduler.add_job(func): add_task(Task(id=ref, func=func)), then add_job.
CallableAddJob ==
    \E func \in Callables :
        /\ job_seq < MaxJobs
        /\ tasks' = TasksAfterAdd(CallableTask(func))
        /\ add_job(Job(callable_to_ref(func), NullStr, NullInt, NullInt))
        /\ proc' = ("call" :> CallableCall("add_job", callable_to_ref(func)))
        /\ UNCHANGED <<now, job_results, held, hist, schedules, cfg>>

\* Scheduler.add_schedule(func, trigger): add_task(Task(id=ref, func=func)),
\* then trigger.next() and add_schedule.
CallableAddSchedule ==
    \E func \in Callables, id \in ScheduleIds, times \in TriggerTimes,
       conflict_policy \in ConflictPolicies :
        /\ hist.added < MaxAddSchedule
        /\ tasks' = TasksAfterAdd(CallableTask(func))
        /\ Scheduler_add_schedule(id, callable_to_ref(func), Trigger(times), "latest",
                                  NullInt, conflict_policy)
        /\ hist' = [hist EXCEPT !.added = @ + 1]
        /\ proc' = ("call" :> CallableCall("add_schedule", callable_to_ref(func)))
        /\ UNCHANGED <<now, jobs, job_results, job_seq, held, cfg>>

InitCallable ==
    /\ now = 0
    /\ tasks = <<>>
    /\ jobs = <<>>
    /\ job_results = <<>>
    /\ job_seq = 0
    /\ held = [w \in Workers |-> [j \in JobIds |-> [task_id |-> NullStr, n |-> 0]]]
    /\ last = Call("init", NullStr, NullStr, <<>>, FALSE, <<>>)
    /\ hist = [inserted |-> [j \in JobIds |-> 0], returned |-> [j \in JobIds |-> 0], added |-> 0]
    /\ schedules = <<>>
    /\ proc = ("call" :> CallableCall("none", NullStr))
    /\ \E store \in {"sql", "mongo"} :
           cfg = [store |-> store, returning |-> TRUE, scheduler |-> "sync"]

NextCallable ==
    \/ ConfigureTask
    \/ CallableAddJob
    \/ CallableAddSchedule

SpecCallable == InitCallable /\ [][NextCallable]_vars

\* C38: scheduler.add_schedule and scheduler.add_job called with a callable
\* whose derived task id is already stored leave that task's max_running_jobs
\* and misfire_grace_time as they were.
C38_ImplicitUpsertKeeps ==
    [][\A t \in DOMAIN tasks :
          (proc'["call"].op \in {"add_job", "add_schedule"} /\ proc'["call"].task_id = t)
          => /\ t \in DOMAIN tasks'
             /\ tasks'[t].max_running_jobs = tasks[t].max_running_jobs
             /\ tasks'[t].misfire_grace_time = tasks[t].misfire_grace_time]_vars


(***************************************************************************)
(* The synchronous and the asynchronous loop side by side: one iteration   *)
(* of Scheduler.run on a store, then one iteration of AsyncScheduler.run   *)
(* on the same store contents at the same clock reading.  proc.diff keeps  *)
(* the store contents the iterations start from and what the synchronous   *)
(* one left behind.                                                        *)
(***************************************************************************)
DiffStart(schedulesTable) ==
    [phase |-> "sync", schedules |-> schedulesTable, jobs |-> <<>>, rows |-> <<>>]

\* The synchronous iteration is over: its outcome is kept, the store is put
\* back to the contents it started from and the asynchronous loop begins.
DiffRestart(s) ==
    /\ proc[s].pc = "sleep"
    /\ proc["diff"].phase = "sync"
    /\ schedules' = proc["diff"].schedules
    /\ jobs' = <<>>
    /\ job_seq' = 0
    /\ cfg' = [cfg EXCEPT !.scheduler = "async"]
    /\ proc' = [proc EXCEPT ![s] = SchedIdle,
                            !["diff"] = [@ EXCEPT !.phase = "async", !.jobs = jobs,
                                                  !.rows = schedules]]
    /\ last' = Call("init", NullStr, NullStr, <<>>, FALSE, <<>>)
    /\ UNCHANGED <<now, tasks, job_results, held, hist>>

InitDiff ==
    /\ now \in Times
    /\ tasks = ("t1" :> Task("t1", NullInt, NullInt))
    /\ jobs = <<>>
    /\ job_results = <<>>
    /\ job_seq = 0
    /\ held = [w \in Workers |-> [j \in JobIds |-> [task_id |-> NullStr, n |-> 0]]]
    /\ last = Call("init", NullStr, NullStr, <<>>, FALSE, <<>>)
    /\ hist = [inserted |-> [j \in JobIds |-> 0], returned |-> [j \in JobIds |-> 0], added |-> 0]
    /\ \E ids \in SUBSET ScheduleIds : \E times \in [ids -> TriggerTimes] :
           schedules = [x \in ids |-> Stored(x, times[x], "latest")]
    /\ proc = [s \in TickSchedulers |-> SchedIdle] @@ ("diff" :> DiffStart(schedules))
    /\ \E store \in {"sql", "mongo"} :
           cfg = [store |-> store, returning |-> TRUE, scheduler |-> "sync"]

NextDiff ==
    \/ \E s \in TickSchedulers : RunAcquireSql(s)
    \/ \E s \in TickSchedulers : RunAcquireFind(s)
    \/ \E s \in TickSchedulers : RunAcquireUpdate(s)
    \/ \E s \in TickSchedulers : RunNow(s)
    \/ \E s \in TickSchedulers : RunCompute(s)
    \/ \E s \in TickSchedulers : RunAddJob(s)
    \/ \E s \in TickSchedulers : RunRelease(s)
    \/ \E s \in TickSchedulers : DiffRestart(s)

SpecDiff == InitDiff /\ [][NextDiff]_vars

\* C39: the synchronous and the asynchronous loop are equivalent: started on
\* the same store contents with the same triggers and clock, an iteration of
\* either calls release_schedules once, after every schedule of the batch is
\* processed and before it sleeps, and the asynchronous iteration leaves the
\* jobs and schedule rows the synchronous one left.
C39_LoopsEquivalent ==
    /\ [](\A s \in TickSchedulers :
            (proc["diff"].phase = "async" /\ proc[s].pc = "sleep")
            => /\ jobs = proc["diff"].jobs
               /\ schedules = proc["diff"].rows)
    /\ [][\A s \in TickSchedulers :
            /\ (proc[s].pc = "release" /\ proc'[s].pc # "release")
               => /\ proc[s].done = Len(proc[s].schedules)
                  /\ proc'[s].pc = "sleep"
            /\ (proc[s].pc # "sleep" /\ proc'[s].pc = "sleep")
               => proc[s].pc = "release"]_vars


\* C40: release_job issued by a worker whose lease on the job expired and was
\* taken over by another worker deletes no job row, decrements no
\* running_jobs and inserts no result: only the release by the worker that
\* holds the lease takes effect.
C40_StaleReleaseNoOp ==
    [][(/\ last'.op = "release_job"
        /\ last'.arg \in DOMAIN jobs
        /\ jobs[last'.arg].acquired_by \notin {NullStr, last'.who})
       => /\ job_results' = job_results
          /\ jobs' = jobs
          /\ tasks' = tasks]_vars

====
